---- MODULE Spec2Model ----
(***************************************************************************)
(* A model of hata's multipart codec (src/hata/backend/multipart.py):      *)
(* BodyPartReader, MultipartWriter, MultipartPayloadWriter and the         *)
(* Content-Disposition parser.                                             *)
(*                                                                         *)
(* A byte is its number (13 is CR, 10 is LF, 45 is `-`), a byte string a   *)
(* sequence of them; a character of a str is a one-character string.       *)
(* Python's None is the empty sequence and a present value x is <<x>>.     *)
(***************************************************************************)
EXTENDS Integers, Sequences, FiniteSets, TLC

VARIABLES
    rd,        \* the BodyPartReader instance (its __slots__)
    content,   \* the bytes the transport (self._content) still holds
    ret,       \* what the last reader call returned
    err,       \* the exception the last call raised ("none": it returned)
    ops,       \* the transport calls the last reader call made, in order
    last,      \* the last reader call: its name, its size argument, the line readline examined
    out,       \* the chunks read_chunk returned so far, concatenated
    orig,      \* the stream the transport was created with
    cuts,      \* offsets inside the first CRLF+boundary where a transport read ended
    used,      \* which reader interfaces were called so far ("chunk", "line")
    pc,        \* "idle", or the loop of read() / release() that is running
    data,      \* read()'s accumulator
    \* MultipartPayloadWriter
    pw,        \* the MultipartPayloadWriter instance (its __slots__, but the sink)
    blocks,    \* the non-empty blocks passed to the sink's write, in order
    todo,      \* the part of the body the payload has not written yet
    body,      \* the body the payload writes
    phase,     \* "new", "writing", "done" (write_eof was called), "off"
    perr,      \* the exception the last call on the writer raised ("none": it returned)
    compress,  \* the content encoding enable_compression took, if any
    \* parse_content_disposition
    disp,      \* what the header is made of: a disposition type and parameters
    header,    \* the header string, a sequence of characters
    parsed,    \* None, or what parse_content_disposition(header) did
    \* MultipartWriter, and the reading of what it wrote
    payloads,  \* the payload objects the caller made
    writer_parts,  \* the writer's parts
    sink,      \* the blocks write passed to the sink
    werr,      \* the exception the last call on the writer raised
    wanted,    \* what the caller handed to append and append_payload, in order
    close_boundary,  \* the argument of the write call
    wpc,       \* "build", "written", "body" (a part is being read), "read", "off"
    wrd,       \* the BodyPartReader of the part being read
    wcontent,  \* the transport the written stream is read from
    wpart,     \* the part being read: its Content-Type and the body so far
    read_parts,  \* the parts read from the stream
    \* content_disposition_filename
    fparams,   \* the params mapping: <<key, value>> pairs in insertion order
    fname,     \* the name argument
    fresult,   \* None, or what content_disposition_filename(fparams, fname) did
    \* MultipartWriter.__init__ and boundary_value
    boundary_arg,  \* the boundary argument: None, or a str as its code points
    made,      \* None, or what MultipartWriter(boundary=boundary_arg) did
    \* BodyPartReader.decode
    dpart,  \* the part: its body, how the sender encoded it, its headers
    dchunks,  \* the chunks read_chunk returns for the part
    dresult, \* None, or what decode or read(decode = True) did
    \* the payload classes
    stream,  \* the value a payload is made of: what is left of it, its name, how much it gives at once, how often it was closed and read
    pay,  \* None, or what create_payload did: the kind, the keywords, the payload object
    taken,  \* the chunks the payload passed to the sink's write
    wrote, \* None, or how payload.write ended and which read and write were to raise
    \* ComponentInteractionIterator
    iargs,  \* the check, timeout and count the iterator was created with
    iterator,  \* the ComponentInteractionIterator instance (its __slots__, but the message)
    consumer,  \* the loop of iter_component_interactions: where it is, what it yielded, how it ended
    called, \* the __call__s so far: the event, what the check did, whether the iterator was finished
    \* Timeouter and ComponentInteractionWaiter
    timeouter,  \* the Timeouter instance (its __slots__)
    evloop,  \* the event loop: its clock, the timer handles scheduled on it, how many were made
    waiter,  \* the ComponentInteractionWaiter instance (its __slots__, but the message)
    seen  \* what happened so far: when the owner was timed out, the calls counted, the time the timeouter is to expire at

rvars == <<rd, content, ret, err, ops, last, out, orig, cuts, used, pc, data>>
pvars == <<pw, blocks, todo, body, phase, perr, compress>>

cvars == <<disp, header, parsed>>
wvars == <<payloads, writer_parts, sink, werr, wanted, close_boundary, wpc, wrd, wcontent, wpart, read_parts>>
fvars == <<fparams, fname, fresult>>
bvars == <<boundary_arg, made>>
dvars == <<dpart, dchunks, dresult>>
yvars == <<stream, pay, taken, wrote>>
ivars == <<iargs, iterator, consumer, called>>
tvars == <<timeouter, evloop, waiter, seen>>
vars == <<rvars, pvars, cvars, wvars, fvars, bvars, dvars, yvars, ivars, tvars>>

\* what the actions of one component leave alone
NotReader == <<pvars, cvars, wvars, fvars, bvars, dvars, yvars, ivars, tvars>>
NotPayloadWriter == <<rvars, cvars, wvars, fvars, bvars, dvars, yvars, ivars, tvars>>
NotContentDisposition == <<rvars, pvars, wvars, fvars, bvars, dvars, yvars, ivars, tvars>>
NotWriter == <<rvars, pvars, cvars, fvars, bvars, dvars, yvars, ivars, tvars>>
NotFilename == <<rvars, pvars, cvars, wvars, bvars, dvars, yvars, ivars, tvars>>
NotBoundary == <<rvars, pvars, cvars, wvars, fvars, dvars, yvars, ivars, tvars>>
NotDecode == <<rvars, pvars, cvars, wvars, fvars, bvars, yvars, ivars, tvars>>
NotPayload == <<rvars, pvars, cvars, wvars, fvars, bvars, dvars, ivars, tvars>>
NotIterator == <<rvars, pvars, cvars, wvars, fvars, bvars, dvars, yvars, tvars>>
NotWaiter == <<rvars, pvars, cvars, wvars, fvars, bvars, dvars, yvars, ivars>>

----------------------------------------------------------------------------
(* Bounds of the model. *)

\* segments an initial stream is made of
MaxSegs == 3
\* largest declared Content-Length
MaxLen == 2
\* rd.content_eof is only ever incremented by the code; it saturates here
MaxContentEof == 1
\* longest body written through a MultipartPayloadWriter
MaxBody == 4
\* most parameters of a Content-Disposition header
MaxParams == 3
\* most payload objects a caller makes for a MultipartWriter
MaxPayloads == 1
\* most append and append_payload calls on a MultipartWriter
MaxCalls == 3
\* longest value of a payload
MaxValue == 1

----------------------------------------------------------------------------
(* Python helpers. *)

None == <<>>
Some(x) == <<x>>

Min2(a, b) == IF a <= b THEN a ELSE b
Max2(a, b) == IF a >= b THEN a ELSE b

\* s[i:j] for 0 <= i, 0 <= j
Slice(s, i, j) == SubSeq(s, i + 1, Min2(j, Len(s)))

\* s[:-2]
DropLast2(s) == SubSeq(s, 1, Max2(0, Len(s) - 2))

\* s.startswith(p)
StartsWith(s, p) == Len(p) <= Len(s) /\ SubSeq(s, 1, Len(p)) = p

\* s.find(sub, start): the least 0-based index >= start where sub occurs, else -1
Find(s, sub, start) ==
    LET hits == {i \in start..(Len(s) - Len(sub)) : SubSeq(s, i + 1, i + Len(sub)) = sub}
    IN IF hits = {} THEN -1 ELSE CHOOSE i \in hits : \A j \in hits : i <= j

\* s.rstrip(b'\r\n'): drops every trailing byte that is CR or LF
RECURSIVE rstrip(_)
rstrip(s) ==
    IF s # <<>> /\ s[Len(s)] \in {13, 10} THEN rstrip(SubSeq(s, 1, Len(s) - 1)) ELSE s

CRLF == <<13, 10>>
DD == <<45, 45>>

----------------------------------------------------------------------------
(* The transport collaborator (self._content): read, readline, unread_data, *)
(* at_eof.  A read of n bytes returns k of them, 1 <= k <= n, as long as   *)
(* bytes are left, and nothing at the end of the stream.                   *)

ReadLens(c, n) == IF c = <<>> \/ n <= 0 THEN {0} ELSE 1..Min2(n, Len(c))

TrRead(c, k) == [got |-> SubSeq(c, 1, k), rest |-> SubSeq(c, k + 1, Len(c))]

TrReadline(c) ==
    LET ends == {i \in 1..Len(c) : c[i] = 10}
        n == IF ends = {} THEN Len(c) ELSE CHOOSE i \in ends : \A j \in ends : i <= j
    IN [got |-> SubSeq(c, 1, n), rest |-> SubSeq(c, n + 1, Len(c))]

TrUnread(c, bytes) == bytes \o c

TrAtEof(c) == c = <<>>

Op(name, n, got) == [op |-> name, n |-> n, got |-> got]

----------------------------------------------------------------------------
(* BodyPartReader. *)

\* the boundary bytes the reader is constructed with (any byte string; the
\* reader only ever compares against it)
Boundary == <<45, 88>>

\* class attribute chunk_size (8192 in the source, scaled to the model's streams)
chunk_size == 5

\* BodyPartReader.__init__
NewReader(boundary, length) ==
    [boundary |-> boundary, at_eof |-> FALSE, length |-> length, read_bytes |-> 0,
     unread |-> <<>>, prev_chunk |-> None, content_eof |-> 0]

\* `if self._length:` is false for None and for 0
HasLength(r) == r.length # None /\ r.length[1] # 0

\* the clamp to the declared length left out
LengthChunkSize_Unclamped(r, size) == size

\* _read_chunk_from_length: the size asked of the transport
LengthChunkSize(r, size) == Min2(size, r.length[1] - r.read_bytes)

\* _read_chunk_from_length(size), the transport returning k bytes
read_chunk_from_length(r, c, size, k) ==
    LET n == LengthChunkSize(r, size)
        got == TrRead(c, k)
    IN [rd |-> r, content |-> got.rest, ret |-> got.got, ops |-> <<Op("read", n, got.got)>>]

\* the test that decides whether the match lies in the previous chunk
TruncatesPrev(size, idx) == size > idx

\* where the scan of the window starts
ScanStart(first_chunk, prev, sub) ==
    IF first_chunk THEN 0 ELSE Max2(0, Len(prev) - Len(sub))

\* _read_chunk_from_stream(size), the transport returning k1 bytes to the
\* first read (made on the first call only) and k2 bytes to the second
read_chunk_from_stream(r, c, size, k1, k2) ==
    LET first_chunk == r.prev_chunk = None
        rd1 == TrRead(c, k1)
        prev0 == IF first_chunk THEN rd1.got ELSE r.prev_chunk[1]
        c1 == IF first_chunk THEN rd1.rest ELSE c
        rd2 == TrRead(c1, k2)
        eof == IF TrAtEof(rd2.rest) THEN 1 ELSE 0
        window == prev0 \o rd2.got
        sub == CRLF \o r.boundary
        idx == Find(window, sub, ScanStart(first_chunk, prev0, sub))
        prev1 == IF idx >= 0 /\ TruncatesPrev(size, idx) THEN Slice(prev0, 0, idx) ELSE prev0
        chunk == IF idx >= 0 THEN Slice(window, Len(prev1), idx) ELSE rd2.got
        c2 == IF idx >= 0 THEN TrUnread(rd2.rest, Slice(window, idx, Len(window))) ELSE rd2.rest
        reads == (IF first_chunk THEN <<Op("read", size, rd1.got)>> ELSE <<>>)
                 \o <<Op("read", size, rd2.got)>>
    IN [rd |-> [r EXCEPT !.prev_chunk = Some(chunk),
                         !.content_eof = Min2(@ + eof, MaxContentEof),
                         !.at_eof = (idx >= 0 /\ chunk = <<>>)],
        content |-> c2,
        ret |-> prev1,
        ops |-> IF idx >= 0
                THEN Append(reads, Op("unread", 0, Slice(window, idx, Len(window))))
                ELSE reads]

\* the guard left out
AtEofGuard_Missing(r) == FALSE

\* the guard at the top of read_chunk, read, readline and release
AtEofGuard(r) == r.at_eof

\* the trailing readline left out
ReadsLineAtEof_Never(eof) == FALSE

\* `if self._at_eof: await self._content.readline()` at the end of read_chunk
ReadsLineAtEof(eof) == eof

\* read_chunk(size)
read_chunk(r, c, size, k1, k2) ==
    IF AtEofGuard(r)
    THEN [rd |-> r, content |-> c, ret |-> <<>>, ops |-> <<>>]
    ELSE LET res == IF HasLength(r)
                    THEN read_chunk_from_length(r, c, size, k2)
                    ELSE read_chunk_from_stream(r, c, size, k1, k2)
             n == res.rd.read_bytes + Len(res.ret)
             eof == res.rd.at_eof \/ res.rd.length = Some(n)
             line == TrReadline(res.content)
         IN [rd |-> [res.rd EXCEPT !.read_bytes = n, !.at_eof = eof],
             content |-> IF ReadsLineAtEof(eof) THEN line.rest ELSE res.content,
             ret |-> res.ret,
             ops |-> IF ReadsLineAtEof(eof)
                     THEN Append(res.ops, Op("readline", 0, line.got))
                     ELSE res.ops]

\* the transport read lengths a read_chunk(size) call can meet
FirstLens(r, c, size) ==
    IF ~r.at_eof /\ ~HasLength(r) /\ r.prev_chunk = None THEN ReadLens(c, size) ELSE {0}

SecondLens(r, c, size, k1) ==
    IF r.at_eof THEN {0}
    ELSE IF HasLength(r) THEN ReadLens(c, LengthChunkSize(r, size))
    ELSE ReadLens(TrRead(c, k1).rest, size)

\* the exact comparison left out: a boundary prefix is enough
IsBoundaryLine_PrefixOnly(line, boundary) == TRUE

\* the comparison readline makes once the line starts with the boundary
IsBoundaryLine(line, boundary) ==
    LET sline == rstrip(line)
    IN sline = boundary \/ sline = boundary \o DD

\* a popleft that leaves the line in the queue
popleft_Keeps(queue) == queue

\* what self._unread.popleft() leaves in the queue
popleft(queue) == Tail(queue)

\* readline()
readline(r, c) ==
    IF AtEofGuard(r)
    THEN [rd |-> r, content |-> c, ret |-> <<>>, ops |-> <<>>, line |-> None]
    ELSE LET queued == r.unread # <<>>
             got == TrReadline(c)
             line == IF queued THEN Head(r.unread) ELSE got.got
             unread1 == IF queued THEN popleft(r.unread) ELSE r.unread
             c1 == IF queued THEN c ELSE got.rest
             ops1 == IF queued THEN <<>> ELSE <<Op("readline", 0, got.got)>>
             next == TrReadline(c1)
         IN IF StartsWith(line, r.boundary)
            THEN IF IsBoundaryLine(line, r.boundary)
                 THEN [rd |-> [r EXCEPT !.at_eof = TRUE, !.unread = Append(unread1, line)],
                       content |-> c1, ret |-> <<>>, ops |-> ops1, line |-> Some(line)]
                 ELSE [rd |-> [r EXCEPT !.unread = unread1],
                       content |-> c1, ret |-> line, ops |-> ops1, line |-> Some(line)]
            ELSE [rd |-> [r EXCEPT !.unread = Append(unread1, next.got)],
                  content |-> next.rest,
                  ret |-> IF StartsWith(next.got, r.boundary) THEN DropLast2(line) ELSE line,
                  ops |-> Append(ops1, Op("readline", 0, next.got)),
                  line |-> Some(line)]

----------------------------------------------------------------------------
(* The streams the reader is run on: up to MaxSegs segments, each a data   *)
(* byte, a CRLF, the boundary or a `--`.                                   *)

Segs == {<<97>>, CRLF, Boundary, DD}

RECURSIVE Flatten(_)
Flatten(ss) == IF ss = <<>> THEN <<>> ELSE Head(ss) \o Flatten(Tail(ss))

Streams == UNION {{Flatten(ss) : ss \in [1..n -> Segs]} : n \in 0..MaxSegs}

Lengths == {None} \cup {Some(n) : n \in 0..MaxLen}

Sizes == {1, chunk_size}

\* offset of the first CRLF+boundary in the stream (-1: none)
SubAt == Find(orig, CRLF \o Boundary, 0)

\* the body: the bytes before the first CRLF+boundary
Body == IF SubAt >= 0 THEN Slice(orig, 0, SubAt) ELSE orig

\* the offsets strictly inside the first CRLF+boundary at which a read of
\* the call ended, the call starting at stream offset pos
RECURSIVE CutsOf(_, _)
CutsOf(os, pos) ==
    IF os = <<>> THEN {}
    ELSE LET o == Head(os)
             p == IF o.op = "unread" THEN pos - Len(o.got) ELSE pos + Len(o.got)
             here == IF o.op = "read" /\ SubAt >= 0 /\ p > SubAt /\ p < SubAt + 2 + Len(Boundary)
                     THEN {p - SubAt} ELSE {}
         IN here \cup CutsOf(Tail(os), p)

Pos == Len(orig) - Len(content)


----------------------------------------------------------------------------
(* MultipartPayloadWriter.  Here a byte is its number, 0..255.             *)

\* the ASCII code of a base64 digit: A-Z, a-z, 0-9, `+`, `/`
b64digit(d) ==
    IF d < 26 THEN 65 + d
    ELSE IF d < 52 THEN 97 + (d - 26)
    ELSE IF d < 62 THEN 48 + (d - 52)
    ELSE IF d = 62 THEN 43 ELSE 47

\* base64.b64encode of one group of one to three bytes: four digits, the
\* last ones the padding `=` (61) for a group of fewer than three
b64group(g) ==
    LET b2 == IF Len(g) >= 2 THEN g[2] ELSE 0
        b3 == IF Len(g) >= 3 THEN g[3] ELSE 0
        n == g[1] * 65536 + b2 * 256 + b3
        d1 == n \div 262144
        d2 == (n \div 4096) % 64
        d3 == (n \div 64) % 64
        d4 == n % 64
    IN IF Len(g) >= 3 THEN <<b64digit(d1), b64digit(d2), b64digit(d3), b64digit(d4)>>
       ELSE IF Len(g) = 2 THEN <<b64digit(d1), b64digit(d2), b64digit(d3), 61>>
       ELSE <<b64digit(d1), b64digit(d2), 61, 61>>

\* base64.b64encode
RECURSIVE b64encode(_)
b64encode(s) ==
    IF s = <<>> THEN <<>>
    ELSE IF Len(s) <= 3 THEN b64group(s)
    ELSE b64group(SubSeq(s, 1, 3)) \o b64encode(SubSeq(s, 4, Len(s)))

\* the ASCII code of a hexadecimal digit, upper case
HexDigit(n) == IF n < 10 THEN 48 + n ELSE 55 + n

\* binascii.b2a_qp of data without line breaks, shorter than a line: `=`, the
\* bytes above `~` and the control bytes become =XX, and so does a space or
\* tab that ends the data
RECURSIVE b2a_qp(_)
b2a_qp(s) ==
    IF s = <<>> THEN <<>>
    ELSE LET c == Head(s)
             quoted == \/ c > 126
                       \/ c = 61
                       \/ c < 32 /\ c # 9
                       \/ c \in {9, 32} /\ Len(s) = 1
         IN (IF quoted THEN <<61, HexDigit(c \div 16), HexDigit(c % 16)>> ELSE <<c>>)
            \o b2a_qp(Tail(s))

\* The compression collaborator (ZLIB_COMPRESSOR, BROTLI_COMPRESSOR):
\* compress(bytes) may hold its input back and return nothing; flush()
\* returns what is held and the end of the compressed stream.  The
\* compressed form of a byte b stands as 255 - b, the end of stream as 3, 0.
Deflated(s) == [i \in 1..Len(s) |-> 255 - s[i]]

NewCompressor(kind) == [kind |-> kind, held |-> <<>>]

Compress(z, chunk, emit) ==
    IF emit
    THEN [z |-> [z EXCEPT !.held = <<>>], out |-> Deflated(z.held \o chunk)]
    ELSE [z |-> [z EXCEPT !.held = @ \o chunk], out |-> <<>>]

Flush(z) == Deflated(z.held) \o <<3, 0>>

\* MultipartPayloadWriter.__init__
NewPayloadWriter == [encoding |-> None, compressor |-> None, encoding_buffer |-> None]

\* enable_encoding(encoding): any other value is ignored
enable_encoding(p, encoding) ==
    IF encoding = "base64"
    THEN [p EXCEPT !.encoding = Some(encoding), !.encoding_buffer = Some(<<>>)]
    ELSE IF encoding = "quoted-printable"
    THEN [p EXCEPT !.encoding = Some(encoding)]
    ELSE p

\* enable_compression(encoding), with brotli installed or not
enable_compression(p, encoding, brotli) ==
    IF encoding \in {"gzip", "deflate"}
    THEN [pw |-> [p EXCEPT !.compressor = Some(NewCompressor(encoding))], err |-> "none"]
    ELSE IF encoding = "br"
    THEN IF brotli
         THEN [pw |-> [p EXCEPT !.compressor = Some(NewCompressor(encoding))], err |-> "none"]
         ELSE [pw |-> p, err |-> "ContentEncodingError"]
    ELSE IF encoding = "identity"
    THEN [pw |-> [p EXCEPT !.compressor = None], err |-> "none"]
    ELSE [pw |-> p, err |-> "ContentEncodingError"]

\* a block missing the whole groups rule: everything buffered is encoded
Barrier_Everything(n) == n

\* a barrier at the whole groups of two
Barrier_Pairs(n) == (n \div 2) * 2

\* the number of buffered bytes write encodes: the whole groups of three
Barrier(n) == (n \div 3) * 3

\* write(chunk) from `encoding = self.encoding` on: the transfer encoding
\* of a chunk and the blocks passed to the sink
Forward(p, chunk) ==
    IF p.encoding = Some("base64")
    THEN LET buffer == p.encoding_buffer[1] \o chunk
             barrier == Barrier(Len(buffer))
         IN IF buffer # <<>> /\ barrier # 0
            THEN [pw |-> [p EXCEPT !.encoding_buffer = Some(Slice(buffer, barrier, Len(buffer)))],
                  out |-> <<b64encode(Slice(buffer, 0, barrier))>>]
            ELSE [pw |-> [p EXCEPT !.encoding_buffer = Some(buffer)], out |-> <<>>]
    ELSE IF p.encoding = Some("quoted-printable")
    THEN [pw |-> p, out |-> <<b2a_qp(chunk)>>]
    ELSE [pw |-> p, out |-> <<chunk>>]

\* write(chunk), the compressor giving its output now (emit) or holding it
payload_write(p, chunk, emit) ==
    IF p.compressor # None /\ chunk # <<>>
    THEN LET z == Compress(p.compressor[1], chunk, emit)
             p1 == [p EXCEPT !.compressor = Some(z.z)]
         IN IF z.out = <<>> THEN [pw |-> p1, out |-> <<>>] ELSE Forward(p1, z.out)
    ELSE Forward(p, chunk)

\* a write_eof that leaves what the compressor holds where it is
payload_write_eof_NoFlush(p) ==
    LET rest == IF p.encoding = Some("base64") /\ p.encoding_buffer[1] # <<>>
                THEN <<b64encode(p.encoding_buffer[1])>>
                ELSE <<>>
    IN [pw |-> [p EXCEPT !.compressor = None], out |-> rest]

\* write_eof()
payload_write_eof(p) ==
    LET chunk == IF p.compressor # None THEN Flush(p.compressor[1]) ELSE <<>>
        p1 == [p EXCEPT !.compressor = None]
        w == IF chunk # <<>> THEN payload_write(p1, chunk, TRUE) ELSE [pw |-> p1, out |-> <<>>]
        rest == IF w.pw.encoding = Some("base64") /\ w.pw.encoding_buffer[1] # <<>>
                THEN <<b64encode(w.pw.encoding_buffer[1])>>
                ELSE <<>>
    IN [pw |-> w.pw, out |-> w.out \o rest]

\* the blocks that hold bytes
NonEmpty(bs) == SelectSeq(bs, LAMBDA b : b # <<>>)

(* The bodies written through the writer, and what can be enabled on it. *)

\* the bytes of a body: a space, a letter, 223, whose compressed form is the
\* space, and 255
PBytes == {32, 97, 223, 255}

Bodies == UNION {[1..n -> PBytes] : n \in 0..MaxBody}

ContentEncodings == {"gzip", "deflate", "br", "identity", "compress"}

TransferEncodings == {"base64", "quoted-printable", "7bit"}

PayloadWriterInit ==
    /\ pw = NewPayloadWriter
    /\ blocks = <<>>
    /\ body \in Bodies
    /\ todo = body
    /\ phase = "new"
    /\ perr = "none"
    /\ compress = None

PayloadWriterOff ==
    /\ pw = NewPayloadWriter
    /\ blocks = <<>>
    /\ body = <<>>
    /\ todo = <<>>
    /\ phase = "off"
    /\ perr = "none"
    /\ compress = None

\* w.enable_compression(encoding), first thing after construction
EnableCompression ==
    /\ phase = "new"
    /\ \E encoding \in ContentEncodings, brotli \in BOOLEAN :
         LET res == enable_compression(pw, encoding, brotli)
         IN /\ pw' = res.pw
            /\ perr' = res.err
            /\ phase' = IF res.err = "none" THEN "compression" ELSE "failed"
            /\ compress' = IF res.pw.compressor # None THEN Some(encoding) ELSE None
    /\ UNCHANGED <<blocks, todo, body>>
    /\ UNCHANGED NotPayloadWriter

\* w.enable_encoding(encoding), before anything is written
EnableEncoding ==
    /\ phase \in {"new", "compression"}
    /\ \E encoding \in TransferEncodings : pw' = enable_encoding(pw, encoding)
    /\ phase' = "encoding"
    /\ perr' = "none"
    /\ UNCHANGED <<blocks, todo, body, compress>>
    /\ UNCHANGED NotPayloadWriter

\* the payload writes its next chunk: w.write(chunk)
PayloadWrite ==
    /\ phase \in {"new", "compression", "encoding", "writing"}
    /\ \E n \in 0..Len(todo), emit \in BOOLEAN :
         LET res == payload_write(pw, SubSeq(todo, 1, n), emit)
         IN /\ pw' = res.pw
            /\ blocks' = blocks \o NonEmpty(res.out)
            /\ todo' = SubSeq(todo, n + 1, Len(todo))
    /\ phase' = "writing"
    /\ perr' = "none"
    /\ UNCHANGED <<body, compress>>
    /\ UNCHANGED NotPayloadWriter

\* w.write_eof(), once the payload wrote all of the body
PayloadWriteEof ==
    /\ phase \in {"new", "compression", "encoding", "writing"}
    /\ todo = <<>>
    /\ LET res == payload_write_eof(pw)
       IN /\ pw' = res.pw
          /\ blocks' = blocks \o NonEmpty(res.out)
    /\ phase' = "done"
    /\ perr' = "none"
    /\ UNCHANGED <<todo, body, compress>>
    /\ UNCHANGED NotPayloadWriter

PayloadWriterNext ==
    \/ EnableCompression
    \/ EnableEncoding
    \/ PayloadWrite
    \/ PayloadWriteEof

----------------------------------------------------------------------------
(* parse_content_disposition.  A string is a sequence of characters, each  *)
(* a one-character string; "xF1", "xF4" and "xFF" are the characters with  *)
(* these codes, beyond ASCII.                                              *)

Uppers == <<"A", "B", "D", "F", "O">>
Lowers == <<"a", "b", "d", "f", "o">>
Digits == {"0", "1", "4", "8"}
NonAscii == {"xF1", "xF4", "xFF"}

\* helpers.TOKEN: the ASCII characters but the controls and the separators
\* ( ) < > @ , ; : \ " / [ ] ? = { } space tab
TOKEN ==
    {Uppers[i] : i \in 1..Len(Uppers)} \cup {Lowers[i] : i \in 1..Len(Lowers)}
        \cup {"e", "m", "n", "t", "u", "x", "z"} \cup Digits
        \cup {"!", "#", "$", "%", "&", "'", "*", "+", "-", ".", "_", "~"}

\* helpers.CHAR holds c: every ASCII character
InCHAR(c) == c \notin NonAscii

\* str.lower
lower(s) ==
    [i \in 1..Len(s) |->
        IF \E j \in 1..Len(Uppers) : Uppers[j] = s[i]
        THEN Lowers[CHOOSE j \in 1..Len(Uppers) : Uppers[j] = s[i]]
        ELSE s[i]]

\* str.lstrip(chars)
RECURSIVE lstrip(_, _)
lstrip(s, chars) == IF s # <<>> /\ Head(s) \in chars THEN lstrip(Tail(s), chars) ELSE s

\* str.rstrip(chars)
RECURSIVE rstripOf(_, _)
rstripOf(s, chars) ==
    IF s # <<>> /\ s[Len(s)] \in chars THEN rstripOf(SubSeq(s, 1, Len(s) - 1), chars) ELSE s

Whitespace == {" "}

\* str.strip()
strip(s) == rstripOf(lstrip(s, Whitespace), Whitespace)

\* str.split(sep) for a separator of one character
RECURSIVE split(_, _)
split(s, sep) ==
    LET at == Find(s, <<sep>>, 0)
    IN IF at < 0 THEN <<s>> ELSE <<Slice(s, 0, at)>> \o split(Slice(s, at + 1, Len(s)), sep)

\* str.count(c) for one character
count(s, c) == Cardinality({i \in 1..Len(s) : s[i] = c})

\* string[1:-1]
Inner(s) == SubSeq(s, 2, Len(s) - 1)

is_token(string) == string # <<>> /\ \A i \in 1..Len(string) : string[i] \in TOKEN

\* is_quoted of a string that is not empty; of an empty one it raises
is_quoted(string) == string[1] = "\"" /\ string[Len(string)] = "\""

is_rfc5987(string) == is_token(string) /\ count(string, "'") = 2

is_extended_param(string) == string # <<>> /\ string[Len(string)] = "*"

is_continuous_param(string) ==
    LET pos == Find(string, <<"*">>, 0) + 1
        substring == IF is_extended_param(string)
                     THEN SubSeq(string, pos + 1, Len(string) - 1)
                     ELSE SubSeq(string, pos + 1, Len(string))
    IN /\ pos # 0
       /\ substring # <<>>
       /\ \A i \in 1..Len(substring) : substring[i] \in Digits

\* unescape: a backslash before a character of CHAR is dropped
RECURSIVE unescape(_)
unescape(text) ==
    IF text = <<>> THEN <<>>
    ELSE IF Head(text) = "\\" /\ Len(text) >= 2 /\ InCHAR(text[2])
    THEN <<text[2]>> \o unescape(SubSeq(text, 3, Len(text)))
    ELSE <<Head(text)>> \o unescape(Tail(text))

\* the value of a hexadecimal digit, -1 for another character
HexValue(c) ==
    IF c = "0" THEN 0 ELSE IF c = "1" THEN 1 ELSE IF c = "4" THEN 4 ELSE IF c = "8" THEN 8
    ELSE IF c \in {"A", "a"} THEN 10 ELSE IF c \in {"B", "b"} THEN 11
    ELSE IF c \in {"D", "d"} THEN 13 ELSE IF c \in {"F", "f"} THEN 15 ELSE -1

\* the character of a code; "?" is any character the headers do not use
Chr(n) ==
    IF n = 65 THEN "A" ELSE IF n = 68 THEN "D" ELSE IF n = 79 THEN "O"
    ELSE IF n = 241 THEN "xF1" ELSE IF n = 244 THEN "xF4" ELSE IF n = 255 THEN "xFF"
    ELSE "?"

\* urllib.parse.unquote_to_bytes as codes: %XX is the byte XX, anything else
\* stays, a lone `%` too; a character that stays has code 0 here, below 128
RECURSIVE PercentDecode(_)
PercentDecode(s) ==
    IF s = <<>> THEN <<>>
    ELSE IF Head(s) = "%" /\ Len(s) >= 3 /\ HexValue(s[2]) >= 0 /\ HexValue(s[3]) >= 0
    THEN <<[code |-> HexValue(s[2]) * 16 + HexValue(s[3]), char |-> Chr(HexValue(s[2]) * 16 + HexValue(s[3]))]>>
             \o PercentDecode(SubSeq(s, 4, Len(s)))
    ELSE <<[code |-> 0, char |-> Head(s)]>> \o PercentDecode(Tail(s))

\* the charsets bytes.decode knows, of those the headers name
KnownCharsets == {<<"u", "t", "f", "-", "8">>, <<"l", "a", "t", "i", "n", "-", "1">>}

\* urllib.parse.unquote(value, encoding, 'strict'): without a `%` the string
\* comes back as it is; else the bytes are decoded with the charset, which
\* raises LookupError for an unknown charset and UnicodeDecodeError for
\* bytes the charset has no character for (utf-8: a lone byte above 127)
unquote(value, encoding) ==
    LET bytes == PercentDecode(value)
    IN IF count(value, "%") = 0 THEN [err |-> "none", value |-> value]
       ELSE IF encoding \notin KnownCharsets THEN [err |-> "LookupError", value |-> <<>>]
       ELSE IF encoding = <<"u", "t", "f", "-", "8">> /\ \E i \in 1..Len(bytes) : bytes[i].code > 127
       THEN [err |-> "UnicodeDecodeError", value |-> <<>>]
       ELSE [err |-> "none", value |-> [i \in 1..Len(bytes) |-> bytes[i].char]]

\* `key in params`
HasKey(params, key) == \E i \in 1..Len(params) : params[i][1] = key

\* `params[key] = value`, for a key that params does not hold
Put(params, key, value) == Append(params, <<key, value>>)

\* `return None, {}`
Rejected == [err |-> "none", disptype |-> None, params |-> <<>>]

\* an exception leaves the function
Raised(e) == [err |-> e, disptype |-> None, params |-> <<>>]

\* the loop `while parts:`, from an item on
RECURSIVE parse_params(_, _, _)
parse_params(disptype, parts, params) ==
    IF parts = <<>> THEN [err |-> "none", disptype |-> Some(lower(disptype)), params |-> params]
    ELSE
    LET item == Head(parts)
        rest == Tail(parts)
        eq == Find(item, <<"=">>, 0)
        key == strip(lower(Slice(item, 0, eq)))
        value == lstrip(Slice(item, eq + 1, Len(item)), Whitespace)
        next(v) == parse_params(disptype, rest, Put(params, key, v))
        skip == parse_params(disptype, rest, params)
    IN IF eq < 0 THEN Rejected
       ELSE IF HasKey(params, key) THEN Rejected
       ELSE IF ~is_token(key) THEN skip
       ELSE IF is_continuous_param(key)
       THEN IF value = <<>> THEN Raised("IndexError")
            ELSE IF is_quoted(value) THEN next(unescape(Inner(value)))
            ELSE IF ~is_token(value) THEN skip
            ELSE next(value)
       ELSE IF is_extended_param(key)
       THEN IF ~is_rfc5987(value) THEN skip
            ELSE LET triplet == split(value, "'")
                     encoding == IF triplet[1] = <<>> THEN <<"u", "t", "f", "-", "8">> ELSE triplet[1]
                     res == unquote(triplet[3], encoding)
                 IN IF res.err = "UnicodeDecodeError" THEN skip
                    ELSE IF res.err # "none" THEN Raised(res.err)
                    ELSE next(res.value)
       ELSE IF value = <<>> THEN Raised("IndexError")
            \* a quoted value is unescaped, but `failed` stays set
            ELSE IF is_quoted(value) THEN Rejected
            ELSE IF is_token(value) THEN next(value)
            ELSE IF rest # <<>> /\ is_quoted(value \o <<";">> \o Head(rest))
            THEN parse_params(disptype, Tail(rest),
                              Put(params, key, unescape(lstrip(Inner(value \o <<";">> \o Head(rest)), {"\\", "/"}))))
            ELSE Rejected

parse_content_disposition(h) ==
    IF h = <<>> THEN Rejected
    ELSE LET parts == split(h, ";")
         IN IF ~is_token(Head(parts)) THEN Rejected
            ELSE parse_params(Head(parts), Tail(parts), <<>>)

(* The headers: a disposition type, then up to MaxParams parameters, each  *)
(* written as `; key=value` (`; key` for a parameter without `=`).  A      *)
(* parameter is a key and a value that is a token, a quoted string given   *)
(* by its content, or raw text.                                            *)

Item(key, kind, text) == [key |-> key, kind |-> kind, text |-> text]

\* the content of a quoted string, quoted: `"` and `\` get a backslash
RECURSIVE Quote(_)
Quote(text) ==
    IF text = <<>> THEN <<>>
    ELSE (IF Head(text) \in {"\"", "\\"} THEN <<"\\", Head(text)>> ELSE <<Head(text)>>)
         \o Quote(Tail(text))

RenderItem(it) ==
    <<";", " ">> \o it.key
        \o (IF it.kind = "bare" THEN <<>>
            ELSE IF it.kind = "quoted" THEN <<"=", "\"">> \o Quote(it.text) \o <<"\"">>
            ELSE <<"=">> \o it.text)

RECURSIVE RenderItems(_)
RenderItems(items) ==
    IF items = <<>> THEN <<>> ELSE RenderItem(Head(items)) \o RenderItems(Tail(items))

Render(d) == d.dtype \o RenderItems(d.items)

DispTypes == {<<"F", "d">>, <<"a">>, <<"a", " ">>, <<>>}

Items ==
    {Item(<<"a">>, "token", <<"1">>),
     Item(<<"A", " ">>, "token", <<"4">>),
     Item(<<"b">>, "token", <<"1">>),
     Item(<<"b">>, "quoted", <<"a", " ", "b">>),
     Item(<<"f">>, "quoted", <<"a", ";", "b">>),
     Item(<<"f">>, "quoted", <<"/", "a", "\"", "b">>),
     Item(<<"b">>, "raw", <<>>),
     Item(<<"b">>, "raw", <<"\"", "a">>),
     Item(<<"b">>, "bare", <<>>),
     Item(<<"a", "/", "b">>, "token", <<"1">>),
     Item(<<"f", "*">>, "raw", <<"'", "'", "%", "4", "1">>),
     Item(<<"f", "*">>, "raw", <<"'", "'", "%", "F", "F">>),
     Item(<<"f", "*">>, "raw", <<"z", "'", "'", "%", "4", "1">>),
     Item(<<"f", "*", "0">>, "token", <<"a">>),
     Item(<<"f", "*", "1">>, "quoted", <<"b">>)}

\* the headers of up to max parameters
Dispositions(max) ==
    UNION {{[dtype |-> t, items |-> its] : t \in DispTypes, its \in [1..n -> Items]} : n \in 0..max}

ContentDispositionInit ==
    /\ disp \in Dispositions(MaxParams)
    /\ header = Render(disp)
    /\ parsed = None

ContentDispositionOff ==
    /\ disp = [dtype |-> <<>>, items |-> <<>>]
    /\ header = <<>>
    /\ parsed = None

\* parse_content_disposition(header)
ParseContentDisposition ==
    /\ parsed = None
    /\ parsed' = Some(parse_content_disposition(header))
    /\ UNCHANGED <<disp, header>>
    /\ UNCHANGED NotContentDisposition

ContentDispositionNext == ParseContentDisposition

----------------------------------------------------------------------------
(* The payloads and MultipartWriter.  A header name or value is a string   *)
(* of the program, one word of the model; a header mapping is a sequence   *)
(* of <<name, value>> with one entry for a name.                           *)

\* str.encode('utf-8') of the words of the headers; a size is written with
\* one digit
utf8(text) ==
    IF text \in {"0", "1", "2", "3", "4", "5", "6", "7", "8", "9"}
    THEN <<48 + (CHOOSE n \in 0..9 : <<"0", "1", "2", "3", "4", "5", "6", "7", "8", "9">>[n + 1] = text)>>
    ELSE
    IF text = "Content-Type"
    THEN <<67, 111, 110, 116, 101, 110, 116, 45, 84, 121, 112, 101>>
    ELSE IF text = "Content-Length"
    THEN <<67, 111, 110, 116, 101, 110, 116, 45, 76, 101, 110, 103, 116, 104>>
    ELSE IF text = "Content-Encoding"
    THEN <<67, 111, 110, 116, 101, 110, 116, 45, 69, 110, 99, 111, 100, 105, 110, 103>>
    ELSE IF text = "Content-Transfer-Encoding"
    THEN <<67, 111, 110, 116, 101, 110, 116, 45, 84, 114, 97, 110, 115, 102, 101, 114, 45, 69, 110, 99, 111, 100, 105, 110, 103>>
    ELSE IF text = "application/octet-stream"
    THEN <<97, 112, 112, 108, 105, 99, 97, 116, 105, 111, 110, 47, 111, 99, 116, 101, 116, 45, 115, 116, 114, 101, 97, 109>>
    ELSE IF text = "gzip"
    THEN <<103, 122, 105, 112>>
    ELSE IF text = "GZIP"
    THEN <<71, 90, 73, 80>>
    ELSE IF text = "deflate"
    THEN <<100, 101, 102, 108, 97, 116, 101>>
    ELSE IF text = "br"
    THEN <<98, 114>>
    ELSE IF text = "identity"
    THEN <<105, 100, 101, 110, 116, 105, 116, 121>>
    ELSE IF text = "compress"
    THEN <<99, 111, 109, 112, 114, 101, 115, 115>>
    ELSE IF text = "base64"
    THEN <<98, 97, 115, 101, 54, 52>>
    ELSE IF text = "BASE64"
    THEN <<66, 65, 83, 69, 54, 52>>
    ELSE IF text = "quoted-printable"
    THEN <<113, 117, 111, 116, 101, 100, 45, 112, 114, 105, 110, 116, 97, 98, 108, 101>>
    ELSE IF text = "binary"
    THEN <<98, 105, 110, 97, 114, 121>>
    ELSE IF text = "7bit"
    THEN <<55, 98, 105, 116>>
    ELSE <<>>

\* str(size) of a size below ten
str(n) == <<"0", "1", "2", "3", "4", "5", "6", "7", "8", "9">>[n + 1]

\* str.lower of a header value
lowerOf(text) == IF text = "GZIP" THEN "gzip" ELSE IF text = "BASE64" THEN "base64" ELSE text

\* imultidict: `name in headers`, headers[name], headers[name] = value,
\* headers.update(other)
Has(h, name) == \E i \in 1..Len(h) : h[i][1] = name

Get(h, name) == h[CHOOSE i \in 1..Len(h) : h[i][1] = name][2]

Set(h, name, value) ==
    IF Has(h, name)
    THEN [i \in 1..Len(h) |-> IF h[i][1] = name THEN <<name, value>> ELSE h[i]]
    ELSE Append(h, <<name, value>>)

RECURSIVE Update(_, _)
Update(h, other) ==
    IF other = <<>> THEN h ELSE Update(Set(h, Head(other)[1], Head(other)[2]), Tail(other))

\* payload_superclass.__init__ of a BytesPayload: without headers the
\* attribute `headers` is set to None; with headers they go to `headrs` and
\* the payload has no attribute `headers` (has_headers)
BytesPayload(value, headers) ==
    [value |-> value,
     has_headers |-> headers = None \/ headers[1] = <<>>,
     headers |-> None,
     headrs |-> IF headers # None /\ headers[1] # <<>> THEN headers ELSE None,
     content_type |-> "application/octet-stream",
     size |-> Some(Len(value))]

\* the Content-Encoding of a part: the encoding, None, or an error
PartEncoding(h) ==
    IF ~Has(h, "Content-Encoding") THEN [err |-> "none", encoding |-> None]
    ELSE LET encoding == lowerOf(Get(h, "Content-Encoding"))
         IN IF encoding \in {"deflate", "gzip", "br"} THEN [err |-> "none", encoding |-> Some(encoding)]
            ELSE IF encoding \in {"", "identity"} THEN [err |-> "none", encoding |-> None]
            ELSE [err |-> "RuntimeError", encoding |-> None]

PartTransferEncoding_Lenient(h) ==
    IF ~Has(h, "Content-Transfer-Encoding") THEN [err |-> "none", encoding |-> None]
    ELSE LET te_encoding == lowerOf(Get(h, "Content-Transfer-Encoding"))
         IN IF te_encoding \in {"base64", "quoted-printable"} THEN [err |-> "none", encoding |-> Some(te_encoding)]
            ELSE [err |-> "none", encoding |-> None]

\* the Content-Transfer-Encoding of a part
PartTransferEncoding(h) ==
    IF ~Has(h, "Content-Transfer-Encoding") THEN [err |-> "none", encoding |-> None]
    ELSE LET te_encoding == lowerOf(Get(h, "Content-Transfer-Encoding"))
         IN IF te_encoding = "" THEN [err |-> "none", encoding |-> None]
            ELSE IF te_encoding \in {"base64", "quoted-printable"} THEN [err |-> "none", encoding |-> Some(te_encoding)]
            ELSE IF te_encoding = "binary" THEN [err |-> "none", encoding |-> None]
            ELSE [err |-> "RuntimeError", encoding |-> None]

\* ''.join(f'{k}: {v}\r\n' ...).encode('utf-8') + b'\r\n'
RECURSIVE RenderHeaders(_)
RenderHeaders(h) ==
    IF h = <<>> THEN CRLF
    ELSE utf8(Head(h)[1]) \o <<58, 32>> \o utf8(Head(h)[2]) \o CRLF \o RenderHeaders(Tail(h))

\* append_payload(payload): the payload as the call leaves it, the part it
\* adds if it adds one, and the exception if it raises
append_payload(payload) ==
    IF ~payload.has_headers
    THEN [err |-> "AttributeError", payload |-> payload, part |-> None]
    ELSE IF payload.headers = None
    THEN [err |-> "TypeError", payload |-> payload, part |-> None]
    ELSE
    LET h1 == IF ~Has(payload.headers[1], "Content-Type")
              THEN Set(payload.headers[1], "Content-Type", payload.content_type)
              ELSE payload.headers[1]
        ce == PartEncoding(h1)
        te == PartTransferEncoding(h1)
        h2 == IF payload.size # None /\ ce.encoding = None /\ te.encoding = None
              THEN Set(h1, "Content-Length", str(payload.size[1]))
              ELSE h1
    IN IF ce.err # "none" \/ te.err # "none"
       THEN [err |-> "RuntimeError", payload |-> [payload EXCEPT !.headers = Some(h1)], part |-> None]
       ELSE [err |-> "none",
             payload |-> [payload EXCEPT !.headers = Some(h2)],
             part |-> Some([value |-> payload.value, size |-> payload.size, headers |-> RenderHeaders(h2),
                            encoding |-> ce.encoding, te_encoding |-> te.encoding])]

\* append(obj, headers) of a payload: the headers are set on it or merged
\* into its own, and the call returns
append_object(payload, headers) ==
    LET given == IF headers = None THEN <<>> ELSE headers[1]
    IN IF ~payload.has_headers THEN [err |-> "AttributeError", payload |-> payload]
       ELSE IF payload.headers = None
       THEN [err |-> "none", payload |-> [payload EXCEPT !.headers = Some(given)]]
       ELSE [err |-> "none", payload |-> [payload EXCEPT !.headers = Some(Update(@[1], given))]]

\* append(obj, headers) of bytes: create_payload makes a BytesPayload of
\* them, which append_payload gets
append(value, headers) ==
    append_payload(BytesPayload(value, IF headers = None THEN Some(<<>>) ELSE headers))

\* one step of write(writer, close_boundary): what it does, the blocks the
\* step passes to the sink, and the MultipartPayloadWriter the step leaves
\* (None: the step is not about one)
Step(op, passed, w) == [op |-> op, out |-> passed, w |-> w]

\* a part written through its MultipartPayloadWriter with no write_eof
EncodedBlocks_NoEof(part, brotli, emit) ==
    LET z == IF part.encoding # None
             THEN enable_compression(NewPayloadWriter, part.encoding[1], brotli)
             ELSE [pw |-> NewPayloadWriter, err |-> "none"]
        w1 == IF part.te_encoding # None THEN enable_encoding(z.pw, part.te_encoding[1]) ELSE z.pw
        w2 == payload_write(w1, part.value, emit)
        made_w == Step("MultipartPayloadWriter", <<>>, Some(NewPayloadWriter))
    IN IF z.err # "none" THEN [err |-> z.err, blocks |-> <<>>, steps |-> <<made_w>>]
       ELSE [err |-> "none",
             blocks |-> w2.out,
             steps |-> <<made_w,
                         Step("enable", <<>>, Some(w1)),
                         Step("part.write(w)", w2.out, Some(w2.pw))>>]

\* `part.write(w); w.write_eof()` through a MultipartPayloadWriter made for
\* the part: the steps, and the blocks they pass to the sink
EncodedBlocks(part, brotli, emit) ==
    LET z == IF part.encoding # None
             THEN enable_compression(NewPayloadWriter, part.encoding[1], brotli)
             ELSE [pw |-> NewPayloadWriter, err |-> "none"]
        w1 == IF part.te_encoding # None THEN enable_encoding(z.pw, part.te_encoding[1]) ELSE z.pw
        w2 == payload_write(w1, part.value, emit)
        w3 == payload_write_eof(w2.pw)
        made_w == Step("MultipartPayloadWriter", <<>>, Some(NewPayloadWriter))
    IN IF z.err # "none" THEN [err |-> z.err, blocks |-> <<>>, steps |-> <<made_w>>]
       ELSE [err |-> "none",
             blocks |-> w2.out \o w3.out,
             steps |-> <<made_w,
                         Step("enable", <<>>, Some(w1)),
                         Step("part.write(w)", w2.out, Some(w2.pw)),
                         Step("w.write_eof", w3.out, Some(w3.pw))>>]

\* the first two steps for a part: the boundary line and the headers
PartStart(part, boundary) ==
    <<Step("boundary", <<DD \o boundary \o CRLF>>, None), Step("headers", <<part.headers>>, None)>>

\* the closing boundary line, when it is asked for
CloseSteps(boundary, closing) ==
    IF closing THEN <<Step("close", <<DD \o boundary \o DD \o CRLF>>, None)>> ELSE <<>>

\* the blocks the steps passed to the sink, in order
RECURSIVE BlocksOf(_)
BlocksOf(steps) == IF steps = <<>> THEN <<>> ELSE Head(steps).out \o BlocksOf(Tail(steps))

RECURSIVE WriteParts_LastFirst(_, _, _, _, _)
WriteParts_LastFirst(parts, boundary, closing, brotli, emit) ==
    IF parts = <<>>
    THEN [err |-> "none", steps |-> CloseSteps(boundary, closing),
          blocks |-> BlocksOf(CloseSteps(boundary, closing))]
    ELSE LET part == parts[Len(parts)]
             written == IF part.encoding # None \/ part.te_encoding # None
                     THEN EncodedBlocks(part, brotli, emit)
                     ELSE [err |-> "none", blocks |-> <<part.value>>,
                           steps |-> <<Step("part.write(writer)", <<part.value>>, None)>>]
             rest == WriteParts_LastFirst(SubSeq(parts, 1, Len(parts) - 1), boundary, closing, brotli, emit)
             start == PartStart(part, boundary)
         IN IF written.err # "none"
            THEN [err |-> written.err, blocks |-> BlocksOf(start), steps |-> start \o written.steps]
            ELSE [err |-> rest.err,
                  blocks |-> BlocksOf(start) \o written.blocks \o <<CRLF>> \o rest.blocks,
                  steps |-> start \o written.steps \o <<Step("crlf", <<CRLF>>, None)>> \o rest.steps]

\* write(writer, close_boundary) from a part on
RECURSIVE WriteParts(_, _, _, _, _)
WriteParts(parts, boundary, closing, brotli, emit) ==
    IF parts = <<>>
    THEN [err |-> "none", steps |-> CloseSteps(boundary, closing),
          blocks |-> BlocksOf(CloseSteps(boundary, closing))]
    ELSE LET part == Head(parts)
             written == IF part.encoding # None \/ part.te_encoding # None
                     THEN EncodedBlocks(part, brotli, emit)
                     ELSE [err |-> "none", blocks |-> <<part.value>>,
                           steps |-> <<Step("part.write(writer)", <<part.value>>, None)>>]
             rest == WriteParts(Tail(parts), boundary, closing, brotli, emit)
             start == PartStart(part, boundary)
         IN IF written.err # "none"
            THEN [err |-> written.err, blocks |-> BlocksOf(start), steps |-> start \o written.steps]
            ELSE [err |-> rest.err,
                  blocks |-> BlocksOf(start) \o written.blocks \o <<CRLF>> \o rest.blocks,
                  steps |-> start \o written.steps \o <<Step("crlf", <<CRLF>>, None)>> \o rest.steps]

\* write(writer, close_boundary)
write(parts, boundary, closing, brotli, emit) ==
    IF parts = <<>> THEN [err |-> "none", blocks |-> <<>>, steps |-> <<>>]
    ELSE WriteParts(parts, boundary, closing, brotli, emit)

\* MultipartWriter.size
RECURSIVE PartsSize(_, _)
PartsSize(parts, boundary) ==
    IF parts = <<>> THEN Some(6 + Len(boundary))
    ELSE LET part == Head(parts)
             rest == PartsSize(Tail(parts), boundary)
         IN IF part.encoding # None \/ part.te_encoding # None \/ part.size = None \/ rest = None
            THEN None
            ELSE Some(6 + Len(boundary) + part.size[1] + Len(part.headers) + rest[1])

writer_size(parts, boundary) == IF parts = <<>> THEN Some(0) ELSE PartsSize(parts, boundary)

(* A caller makes payloads, hands them and raw bytes to a MultipartWriter, *)
(* and has it write; then the stream is read as a multipart reader does:   *)
(* the boundary line, the header lines up to the empty one, and the body   *)
(* through a BodyPartReader made with the boundary and the headers.        *)

WriterBoundary == <<88>>

Values == UNION {[1..n -> {97, 10}] : n \in 0..MaxValue}

\* the headers given with a payload that is appended
HeaderArgs ==
    {None,
     Some(<<<<"Content-Encoding", "GZIP">>>>),
     Some(<<<<"Content-Encoding", "compress">>>>),
     Some(<<<<"Content-Transfer-Encoding", "base64">>>>)}

\* the headers given where a payload is made
PayloadHeaderArgs == {None, Some(<<>>), Some(<<<<"Content-Encoding", "GZIP">>>>)}

\* the header lines of a part up to the empty line, and what follows them
RECURSIVE HeaderLines(_)
HeaderLines(c) ==
    LET line == TrReadline(c)
    IN IF line.got = <<>> \/ rstrip(line.got) = <<>>
       THEN [lines |-> <<>>, rest |-> line.rest]
       ELSE LET more == HeaderLines(line.rest)
            IN [lines |-> <<rstrip(line.got)>> \o more.lines, rest |-> more.rest]

\* the value of the header `name` among the lines, None if there is none
HeaderValue(lines, name) ==
    LET start == name \o <<58, 32>>
        hits == {i \in 1..Len(lines) : StartsWith(lines[i], start)}
    IN IF hits = {} THEN None
       ELSE LET i == CHOOSE i \in hits : TRUE
            IN Some(SubSeq(lines[i], Len(start) + 1, Len(lines[i])))

\* int() of a decimal number
RECURSIVE int(_)
int(digits) ==
    IF digits = <<>> THEN 0
    ELSE int(SubSeq(digits, 1, Len(digits) - 1)) * 10 + (digits[Len(digits)] - 48)

NoPart == [content_type |-> None, data |-> <<>>]

WriterInit ==
    /\ payloads = <<>>
    /\ writer_parts = <<>>
    /\ sink = <<>>
    /\ werr = "none"
    /\ wanted = <<>>
    /\ close_boundary = FALSE
    /\ wpc = "build"
    /\ wrd = NewReader(DD \o WriterBoundary, None)
    /\ wcontent = <<>>
    /\ wpart = NoPart
    /\ read_parts = <<>>

WriterOff ==
    /\ payloads = <<>>
    /\ writer_parts = <<>>
    /\ sink = <<>>
    /\ werr = "none"
    /\ wanted = <<>>
    /\ close_boundary = FALSE
    /\ wpc = "off"
    /\ wrd = NewReader(DD \o WriterBoundary, None)
    /\ wcontent = <<>>
    /\ wpart = NoPart
    /\ read_parts = <<>>

Reading == <<wrd, wcontent, wpart, read_parts>>

\* the caller makes a payload: BytesPayload(value) or BytesPayload(value, headers=...)
NewBytesPayload ==
    /\ wpc = "build"
    /\ Len(payloads) < MaxPayloads
    /\ \E value \in Values, headers \in PayloadHeaderArgs :
         payloads' = Append(payloads, BytesPayload(value, headers))
    /\ werr' = "none"
    /\ UNCHANGED <<writer_parts, sink, wanted, close_boundary, wpc, Reading>>
    /\ UNCHANGED NotWriter

\* writer.append(value, headers) of bytes
AppendBytes ==
    /\ wpc = "build"
    /\ Len(wanted) < MaxCalls
    /\ \E value \in Values, headers \in PayloadHeaderArgs :
         LET res == append(value, headers)
         IN /\ writer_parts' = IF res.part # None THEN Append(writer_parts, res.part[1]) ELSE writer_parts
            /\ werr' = res.err
            /\ wanted' = Append(wanted, [value |-> value, payload |-> 0, headers |-> headers])
    /\ UNCHANGED <<payloads, sink, close_boundary, wpc, Reading>>
    /\ UNCHANGED NotWriter

\* writer.append(payload, headers) of a payload, with headers of args, as
\* one of at most calls calls
AppendObjectOf(args, calls) ==
    /\ wpc = "build"
    /\ Len(wanted) < calls
    /\ \E i \in 1..Len(payloads), headers \in args :
         LET res == append_object(payloads[i], headers)
         IN /\ payloads' = [payloads EXCEPT ![i] = res.payload]
            /\ werr' = res.err
            /\ wanted' = Append(wanted, [value |-> payloads[i].value, payload |-> i, headers |-> headers])
    /\ UNCHANGED <<writer_parts, sink, close_boundary, wpc, Reading>>
    /\ UNCHANGED NotWriter

AppendObject == AppendObjectOf(HeaderArgs, MaxCalls)

\* writer.append_payload(payload), as one of at most calls calls
AppendPayloadOf(calls) ==
    /\ wpc = "build"
    /\ Len(wanted) < calls
    /\ \E i \in 1..Len(payloads) :
         LET res == append_payload(payloads[i])
         IN /\ payloads' = [payloads EXCEPT ![i] = res.payload]
            /\ writer_parts' = IF res.part # None THEN Append(writer_parts, res.part[1]) ELSE writer_parts
            /\ werr' = res.err
            /\ wanted' = Append(wanted, [value |-> payloads[i].value, payload |-> i, headers |-> None])
    /\ UNCHANGED <<sink, close_boundary, wpc, Reading>>
    /\ UNCHANGED NotWriter

AppendPayload == AppendPayloadOf(MaxCalls)

\* writer.write(sink, close_boundary); the stream is then handed to the
\* reading side
Write ==
    /\ wpc = "build"
    /\ \E close \in BOOLEAN, brotli \in BOOLEAN, emit \in BOOLEAN :
         LET res == write(writer_parts, WriterBoundary, close, brotli, emit)
         IN /\ sink' = res.blocks
            /\ werr' = res.err
            /\ close_boundary' = close
            /\ wcontent' = Flatten(res.blocks)
    /\ wpc' = "written"
    /\ UNCHANGED <<payloads, writer_parts, wanted, wrd, wpart, read_parts>>
    /\ UNCHANGED NotWriter

\* the reading side takes the next boundary line and, for a part, its
\* headers, and makes the part's BodyPartReader: with the headers, or (scan)
\* without its Content-Length
ReadPartHeaders ==
    /\ wpc = "written"
    /\ LET line == TrReadline(wcontent)
           head == HeaderLines(line.rest)
           length == HeaderValue(head.lines, utf8("Content-Length"))
       IN IF rstrip(line.got) = DD \o WriterBoundary
          THEN /\ \E scan \in BOOLEAN :
                    wrd' = NewReader(DD \o WriterBoundary,
                                     IF scan \/ length = None THEN None ELSE Some(int(length[1])))
               /\ wcontent' = head.rest
               /\ wpart' = [content_type |-> HeaderValue(head.lines, utf8("Content-Type")), data |-> <<>>]
               /\ wpc' = "body"
          ELSE /\ wcontent' = line.rest
               /\ wpc' = IF line.got = <<>> \/ rstrip(line.got) = DD \o WriterBoundary \o DD
                         THEN "read" ELSE "broken"
               /\ UNCHANGED <<wrd, wpart>>
    /\ UNCHANGED <<payloads, writer_parts, sink, werr, wanted, close_boundary, read_parts>>
    /\ UNCHANGED NotWriter

\* a turn of the loop of read() on the part's reader
ReadPartChunk ==
    /\ wpc = "body"
    /\ ~wrd.at_eof
    /\ \E k1 \in FirstLens(wrd, wcontent, chunk_size) :
       \E k2 \in SecondLens(wrd, wcontent, chunk_size, k1) :
         LET res == read_chunk(wrd, wcontent, chunk_size, k1, k2)
         IN /\ wrd' = res.rd
            /\ wcontent' = res.content
            /\ wpart' = [wpart EXCEPT !.data = @ \o res.ret]
    /\ UNCHANGED <<payloads, writer_parts, sink, werr, wanted, close_boundary, wpc, read_parts>>
    /\ UNCHANGED NotWriter

\* read() returns the body of the part
ReadPartDone ==
    /\ wpc = "body"
    /\ wrd.at_eof
    /\ read_parts' = Append(read_parts, wpart)
    /\ wpart' = NoPart
    /\ wpc' = "written"
    /\ UNCHANGED <<payloads, writer_parts, sink, werr, wanted, close_boundary, wrd, wcontent>>
    /\ UNCHANGED NotWriter

\* A caller that names encodings: the values of Content-Encoding and of
\* Content-Transfer-Encoding it gives with append(payload, headers)
EncodingNames == {"gzip", "GZIP", "deflate", "br", "identity", "", "compress"}

TransferEncodingNames == {"base64", "BASE64", "quoted-printable", "binary", "", "7bit"}

EncodingHeaderArgs ==
    {None}
        \cup {Some(<<<<"Content-Encoding", v>>>>) : v \in EncodingNames}
        \cup {Some(<<<<"Content-Transfer-Encoding", v>>>>) : v \in TransferEncodingNames}

\* the most calls of append and append_payload that caller makes
MaxAppends == 4

\* writer.append(payload, headers) with headers that name an encoding
AppendEncodings == AppendObjectOf(EncodingHeaderArgs, MaxAppends)

\* writer.append_payload(payload) of a payload with such headers
AppendEncoded == AppendPayloadOf(MaxAppends)

AppendNext ==
    \/ NewBytesPayload
    \/ AppendEncodings
    \/ AppendEncoded
    \/ Write

WriterNext ==
    \/ NewBytesPayload
    \/ AppendBytes
    \/ AppendObject
    \/ AppendPayload
    \/ Write
    \/ ReadPartHeaders
    \/ ReadPartChunk
    \/ ReadPartDone

----------------------------------------------------------------------------
(* content_disposition_filename.  Keys and values are sequences of         *)
(* characters, params is a dict: <<key, value>> pairs with distinct keys.  *)

\* the most continuation segments a params mapping has, less one
MaxIndex == 10

DigitChars == <<"0", "1", "2", "3", "4", "5", "6", "7", "8", "9">>

\* ord(c) of the characters the keys are made of
Ord(c) ==
    IF c = "*" THEN 42
    ELSE IF \E d \in 1..10 : DigitChars[d] = c THEN 47 + (CHOOSE d \in 1..10 : DigitChars[d] = c)
    ELSE IF c = "a" THEN 97 ELSE IF c = "e" THEN 101 ELSE IF c = "f" THEN 102
    ELSE IF c = "i" THEN 105 ELSE IF c = "l" THEN 108 ELSE IF c = "m" THEN 109
    ELSE IF c = "n" THEN 110 ELSE 0

\* s < t for two str: the first differing character decides, else the length
RECURSIVE StrLess(_, _)
StrLess(s, t) ==
    IF t = <<>> THEN FALSE
    ELSE IF s = <<>> THEN TRUE
    ELSE IF Head(s) = Head(t) THEN StrLess(Tail(s), Tail(t))
    ELSE Ord(Head(s)) < Ord(Head(t))

\* sorted() of (key, value) tuples with distinct keys: the keys decide
RECURSIVE sorted(_)
sorted(items) ==
    IF items = <<>> THEN <<>>
    ELSE LET least == CHOOSE i \in 1..Len(items) :
                         \A j \in 1..Len(items) : j = i \/ StrLess(items[i][1], items[j][1])
         IN <<items[least]>>
                \o sorted([k \in 1..(Len(items) - 1) |-> IF k < least THEN items[k] ELSE items[k + 1]])

\* str(num) of a number that is not negative, as characters
RECURSIVE str_chars(_)
str_chars(num) ==
    IF num < 10 THEN <<DigitChars[num + 1]>>
    ELSE str_chars(num \div 10) \o <<DigitChars[(num % 10) + 1]>>

\* params[key]
Lookup(params, key) ==
    params[CHOOSE i \in 1..Len(params) : params[i][1] = key][2]

\* a generator expression with an `if`: the items that pass, in order
RECURSIVE Filter(_, _)
Filter(items, prefix) ==
    IF items = <<>> THEN <<>>
    ELSE (IF StartsWith(Head(items)[1], prefix) THEN <<Head(items)>> ELSE <<>>)
             \o Filter(Tail(items), prefix)

\* key.split('*', 1)[1] with a trailing `*` taken off
TailOf(key) ==
    LET tail == Slice(key, Find(key, <<"*">>, 0) + 1, Len(key))
    IN IF tail # <<>> /\ tail[Len(tail)] = "*" THEN SubSeq(tail, 1, Len(tail) - 1) ELSE tail

\* the loop over enumerate(fnparams): the values taken until a tail is not
\* str(num)
RECURSIVE Collect(_, _)
Collect(fnparams, num) ==
    IF fnparams = <<>> THEN <<>>
    ELSE IF TailOf(Head(fnparams)[1]) = str_chars(num)
    THEN <<Head(fnparams)[2]>> \o Collect(Tail(fnparams), num + 1)
    ELSE <<>>

\* ''.join(parts)
RECURSIVE join(_)
join(parts) == IF parts = <<>> THEN <<>> ELSE Head(parts) \o join(Tail(parts))

Filename == <<"f", "i", "l", "e", "n", "a", "m", "e">>
Name == <<"n", "a", "m", "e">>

\* content_disposition_filename(params, name): the exception it raised and
\* the value it returned, None or a str
content_disposition_filename(params, name) ==
    LET name_suf == name \o <<"*">>
        fnparams == sorted(Filter(params, Filename \o <<"*">>))
        parts == Collect(fnparams, 0)
        value == join(parts)
        first == Find(value, <<"'">>, 0)
        second == Find(value, <<"'">>, first + 1)
        encoding == Slice(value, 0, first)
        decoded == unquote(Slice(value, second + 1, Len(value)),
                           IF encoding = <<>> THEN <<"u", "t", "f", "-", "8">> ELSE encoding)
    IN IF params = <<>> THEN [err |-> "none", value |-> None]
       ELSE IF HasKey(params, name_suf) THEN [err |-> "none", value |-> Some(Lookup(params, name_suf))]
       ELSE IF HasKey(params, name) THEN [err |-> "none", value |-> Some(Lookup(params, name))]
       ELSE IF parts = <<>> THEN [err |-> "none", value |-> None]
       ELSE IF first < 0 THEN [err |-> "none", value |-> Some(value)]
       ELSE IF second < 0 THEN [err |-> "ValueError", value |-> None]
       ELSE IF decoded.err # "none" THEN [err |-> decoded.err, value |-> None]
       ELSE [err |-> "none", value |-> Some(decoded.value)]

\* the value of segment i: a letter of its own
Letters == <<"a", "b", "c", "d", "e", "f", "g", "h", "i", "j", "k", "l", "m">>

\* what segment 0 may hold: a plain value, a value behind a charset marker,
\* one with a percent escape utf-8 has no character for, one behind the
\* marker of an unknown charset, one with a single `'`
FirstValues ==
    {<<"a">>,
     <<"'", "'", "%", "4", "1">>,
     <<"'", "'", "%", "F", "F">>,
     <<"z", "'", "'", "%", "4", "1">>,
     <<"a", "'">>}

\* the key of segment i, `filename*i` or `filename*i*`
SegmentKey(i, starred) ==
    Filename \o <<"*">> \o str_chars(i) \o (IF starred THEN <<"*">> ELSE <<>>)

\* the segments of indexes, the highest index first
RECURSIVE Segments(_, _, _)
Segments(indexes, first, starred) ==
    IF indexes = {} THEN <<>>
    ELSE LET i == CHOOSE i \in indexes : \A j \in indexes : j <= i
         IN <<<<SegmentKey(i, starred), IF i = 0 THEN first ELSE <<Letters[i + 1]>>>>>>
                \o Segments(indexes \ {i}, first, starred)

\* the other parameters a mapping may hold
OtherParams ==
    {<<>>,
     <<<<Filename, <<"p">>>>>>,
     <<<<Filename \o <<"*">>, <<"q">>>>>>,
     <<<<Name, <<"n">>>>>>}

FilenameInit ==
    /\ \E indexes \in SUBSET (0..MaxIndex), first \in FirstValues, starred \in BOOLEAN,
          others \in OtherParams :
           fparams = others \o Segments(indexes, first, starred)
    /\ fname \in {Filename, Name}
    /\ fresult = None

FilenameOff ==
    /\ fparams = <<>>
    /\ fname = Filename
    /\ fresult = None

ContentDispositionFilename ==
    /\ fresult = None
    /\ fresult' = Some(content_disposition_filename(fparams, fname))
    /\ UNCHANGED <<fparams, fname>>
    /\ UNCHANGED NotFilename

FilenameNext == ContentDispositionFilename

----------------------------------------------------------------------------
(* MultipartWriter.__init__ and boundary_value.  The boundary argument is  *)
(* a str, a sequence of code points; encoded it is a sequence of bytes.    *)

\* the longest boundary given
MaxBoundary == 3

\* the class [!#$%&'*+\-.^_`|~\w] of a bytes pattern: \w is [a-zA-Z0-9_]
TChar ==
    {33, 35, 36, 37, 38, 39, 42, 43, 45, 46, 94, 95, 96, 124, 126}
        \cup (48..57) \cup (65..90) \cup (97..122)

\* _valid_tchar_regex.match(value) is not None: \A[...]+\Z
valid_tchar_regex(value) == value # <<>> /\ \A i \in 1..Len(value) : value[i] \in TChar

\* the class [\x00-\x08\x0A-\x1F\x7F]
InvalidQdtext == (0..8) \cup (10..31) \cup {127}

invalid_qdtext_char_regex_WithTab(value) ==
    \E i \in 1..Len(value) : value[i] \in InvalidQdtext \cup {9}

\* _invalid_qdtext_char_regex.search(value) is not None
invalid_qdtext_char_regex(value) == \E i \in 1..Len(value) : value[i] \in InvalidQdtext

\* bytes.replace(old, new) for one byte old
RECURSIVE replace(_, _, _)
replace(value, old, new) ==
    IF value = <<>> THEN <<>>
    ELSE (IF Head(value) = old THEN new ELSE <<Head(value)>>) \o replace(Tail(value), old, new)

\* bytes.decode('ascii') and str.encode('ascii'): a code below 128 is the
\* byte of the same number, another code has none
IsAscii(s) == \A i \in 1..Len(s) : s[i] < 128

\* boundary_value of a writer whose _boundary is value: the exception it
\* raised and the str it returned
boundary_value(value) ==
    IF valid_tchar_regex(value) THEN [err |-> "none", value |-> value]
    ELSE IF invalid_qdtext_char_regex(value) THEN [err |-> "ValueError", value |-> <<>>]
    ELSE [err |-> "none",
          value |-> <<34>> \o replace(replace(value, 92, <<92, 92>>), 34, <<92, 34>>) \o <<34>>]

\* 'multipart/mixed; boundary='
ContentTypePrefix ==
    <<109, 117, 108, 116, 105, 112, 97, 114, 116, 47, 109, 105, 120, 101, 100, 59, 32,
      98, 111, 117, 110, 100, 97, 114, 121, 61>>

\* uuid.uuid4().hex.encode('ascii'): 32 hexadecimal digits, whichever
UuidHex == {[i \in 1..32 |-> 48], [i \in 1..32 |-> IF i % 2 = 0 THEN 102 ELSE 57]}

\* MultipartWriter(boundary = boundary) with _boundary chosen as hex when
\* boundary is None: the exception raised, and of the writer made its
\* _boundary, its boundary_value and its content_type
NewMultipartWriter(boundary, hex) ==
    LET encoded == IF boundary = None THEN hex ELSE boundary[1]
        rendered == boundary_value(encoded)
    IN IF boundary # None /\ ~IsAscii(boundary[1])
       THEN [err |-> "ValueError", boundary |-> <<>>, boundary_value |-> <<>>, content_type |-> <<>>]
       ELSE IF rendered.err # "none"
       THEN [err |-> rendered.err, boundary |-> <<>>, boundary_value |-> <<>>, content_type |-> <<>>]
       ELSE [err |-> "none", boundary |-> encoded, boundary_value |-> rendered.value,
             content_type |-> ContentTypePrefix \o rendered.value]

\* the code points of the boundaries given: TAB, two control characters and
\* DEL, a space, `"`, `\`, three token characters, `@`, and e with an acute
BoundaryChars == {9, 1, 10, 127, 32, 34, 92, 88, 39, 45, 64, 233}

\* the boundaries of at most max characters
Boundaries(max) == UNION {[1..n -> BoundaryChars] : n \in 0..max}

BoundaryInit ==
    /\ boundary_arg \in {None} \cup {Some(b) : b \in Boundaries(MaxBoundary)}
    /\ made = None

BoundaryOff ==
    /\ boundary_arg = None
    /\ made = None

Construct ==
    /\ made = None
    /\ \E hex \in UuidHex : made' = Some(NewMultipartWriter(boundary_arg, hex))
    /\ UNCHANGED boundary_arg
    /\ UNCHANGED NotBoundary

BoundaryNext == Construct

----------------------------------------------------------------------------
(* BodyPartReader.decode and read(decode = True).  The headers of the part *)
(* are a mapping as the writer's.                                          *)

\* the longest body that is encoded and decoded
MaxDecoded == 2

\* the value of the base64 digit with ASCII code c, -1 for another byte
b64value(c) ==
    IF c >= 65 /\ c <= 90 THEN c - 65
    ELSE IF c >= 97 /\ c <= 122 THEN c - 71
    ELSE IF c >= 48 /\ c <= 57 THEN c + 4
    ELSE IF c = 43 THEN 62
    ELSE IF c = 47 THEN 63
    ELSE -1

\* binascii.a2b_base64 as base64.b64decode calls it: a byte that is no
\* digit is skipped; four digits give three bytes; a `=` that completes a
\* group of two or three digits ends the decoding, whatever follows; digits
\* left over at the end raise binascii.Error.  quad digits are in n, pads
\* `=` came since the last digit
RECURSIVE a2b_base64(_, _, _, _, _)
a2b_base64(s, quad, pads, n, sofar) ==
    IF s = <<>>
    THEN IF quad # 0 THEN [err |-> "binascii.Error", data |-> <<>>] ELSE [err |-> "none", data |-> sofar]
    ELSE IF Head(s) = 61
    THEN IF quad >= 2 /\ quad + pads + 1 >= 4
         THEN [err |-> "none",
               data |-> IF quad = 2 THEN sofar \o <<(n \div 16) % 256>>
                        ELSE sofar \o <<(n \div 1024) % 256, (n \div 4) % 256>>]
         ELSE a2b_base64(Tail(s), quad, pads + 1, n, sofar)
    ELSE IF b64value(Head(s)) < 0 THEN a2b_base64(Tail(s), quad, pads, n, sofar)
    ELSE IF quad = 3
    THEN LET m == n * 64 + b64value(Head(s))
         IN a2b_base64(Tail(s), 0, 0, 0, sofar \o <<m \div 65536, (m \div 256) % 256, m % 256>>)
    ELSE a2b_base64(Tail(s), quad + 1, 0, n * 64 + b64value(Head(s)), sofar)

\* base64.b64decode(input)
b64decode(input) == a2b_base64(input, 0, 0, 0, <<>>)

\* the value of the hexadecimal digit with ASCII code c, -1 for another byte
hexvalue(c) ==
    IF c >= 48 /\ c <= 57 THEN c - 48
    ELSE IF c >= 65 /\ c <= 70 THEN c - 55
    ELSE IF c >= 97 /\ c <= 102 THEN c - 87
    ELSE -1

\* s from the byte after its first LF on, nothing if it has none
RECURSIVE AfterLf(_)
AfterLf(s) == IF s = <<>> THEN <<>> ELSE IF Head(s) = 10 THEN Tail(s) ELSE AfterLf(Tail(s))

\* binascii.a2b_qp(input): =XX is the byte XX, `==` is `=`, a `=` before a
\* line end goes with the line end, a `=` that is the last byte goes, and any
\* other `=` stays
RECURSIVE a2b_qp(_)
a2b_qp(s) ==
    IF s = <<>> THEN <<>>
    ELSE IF Head(s) # 61 THEN <<Head(s)>> \o a2b_qp(Tail(s))
    ELSE IF Len(s) = 1 THEN <<>>
    ELSE IF s[2] = 10 THEN a2b_qp(SubSeq(s, 3, Len(s)))
    ELSE IF s[2] = 13 THEN a2b_qp(AfterLf(Tail(s)))
    ELSE IF s[2] = 61 THEN <<61>> \o a2b_qp(SubSeq(s, 3, Len(s)))
    ELSE IF Len(s) >= 3 /\ hexvalue(s[2]) >= 0 /\ hexvalue(s[3]) >= 0
    THEN <<hexvalue(s[2]) * 16 + hexvalue(s[3])>> \o a2b_qp(SubSeq(s, 4, Len(s)))
    ELSE <<61>> \o a2b_qp(Tail(s))

\* zlib.decompress(input, wbits) of the compressed form the compressor
\* gives: bytes that do not end with the end of stream raise zlib.error
decompress(input) ==
    IF Len(input) >= 2 /\ SubSeq(input, Len(input) - 1, Len(input)) = <<3, 0>>
    THEN [err |-> "none", data |-> [i \in 1..(Len(input) - 2) |-> 255 - input[i]]]
    ELSE [err |-> "zlib.error", data |-> <<>>]

decode_content_Fallback(headers, input) ==
    LET encoding == lowerOf(Get(headers, "Content-Encoding"))
    IN IF encoding \in {"deflate", "gzip"} THEN decompress(input)
       ELSE [err |-> "none", data |-> input]

\* _decode_content(input)
decode_content(headers, input) ==
    LET encoding == lowerOf(Get(headers, "Content-Encoding"))
    IN IF encoding = "deflate" THEN decompress(input)
       ELSE IF encoding = "gzip" THEN decompress(input)
       ELSE IF encoding = "identity" THEN [err |-> "none", data |-> input]
       ELSE [err |-> "RuntimeError", data |-> <<>>]

\* _decode_content_transfer(input)
decode_content_transfer(headers, input) ==
    LET encoding == lowerOf(Get(headers, "Content-Transfer-Encoding"))
    IN IF encoding = "base64" THEN b64decode(input)
       ELSE IF encoding = "quoted-printable" THEN [err |-> "none", data |-> a2b_qp(input)]
       ELSE IF encoding \in {"binary", "8bit", "7bit"} THEN [err |-> "none", data |-> input]
       ELSE [err |-> "RuntimeError", data |-> <<>>]

decode_ContentFirst(headers, input) ==
    LET first == IF Has(headers, "Content-Encoding")
                 THEN decode_content(headers, input)
                 ELSE [err |-> "none", data |-> input]
    IN IF first.err # "none" THEN first
       ELSE IF Has(headers, "Content-Transfer-Encoding")
       THEN decode_content_transfer(headers, first.data)
       ELSE first

\* decode(input): the exception it raised and the bytes it returned
decode(headers, input) ==
    LET first == IF Has(headers, "Content-Transfer-Encoding")
                 THEN decode_content_transfer(headers, input)
                 ELSE [err |-> "none", data |-> input]
    IN IF first.err # "none" THEN first
       ELSE IF Has(headers, "Content-Encoding") THEN decode_content(headers, first.data)
       ELSE first

\* the loop of read(): data.extend of every chunk read_chunk returned
RECURSIVE extend(_, _)
extend(buffer, chunks) ==
    IF chunks = <<>> THEN buffer ELSE extend(buffer \o Head(chunks), Tail(chunks))

\* read(decode = True) of a reader not at the end of its part, whose calls
\* of read_chunk return chunks
read_decode(headers, chunks) == decode(headers, extend(<<>>, chunks))

\* the bodies of the parts, and how a sender encoded them: the content
\* encoding first, the transfer encoding on top
DecodedBytes == {97, 61, 255}

DecodedBodies(max) == UNION {[1..n -> DecodedBytes] : n \in 0..max}

Encoded(written, ce, te) ==
    LET compressed == IF ce = "deflate" THEN Deflated(written) \o <<3, 0>> ELSE written
    IN IF te = "base64" THEN b64encode(compressed)
       ELSE IF te = "quoted-printable" THEN b2a_qp(compressed)
       ELSE compressed

\* the headers a part may come with
DecodeHeaders ==
    {ce \o te :
        ce \in {<<>>} \cup {<<<<"Content-Encoding", v>>>> :
                              v \in {"gzip", "GZIP", "deflate", "identity", "", "br"}},
        te \in {<<>>} \cup {<<<<"Content-Transfer-Encoding", v>>>> :
                              v \in {"base64", "BASE64", "quoted-printable", "binary", "7bit", "8bit", "", "x-token"}}}

DecodeInit ==
    /\ \E written \in DecodedBodies(MaxDecoded), ce \in {"none", "deflate"},
          te \in {"none", "base64", "quoted-printable"}, headers \in DecodeHeaders :
         /\ dpart = [body |-> written, ce |-> ce, te |-> te, headers |-> headers]
         /\ \E cut \in 0..Len(Encoded(written, ce, te)) :
              dchunks = <<SubSeq(Encoded(written, ce, te), 1, cut),
                          SubSeq(Encoded(written, ce, te), cut + 1, Len(Encoded(written, ce, te)))>>
    /\ dresult = None

DecodeOff ==
    /\ dpart = [body |-> <<>>, ce |-> "none", te |-> "none", headers |-> <<>>]
    /\ dchunks = <<>>
    /\ dresult = None

\* part.decode(data) with the whole body as data
Decode ==
    /\ dresult = None
    /\ dresult' = Some([op |-> "decode"] @@ decode(dpart.headers, extend(<<>>, dchunks)))
    /\ UNCHANGED <<dpart, dchunks>>
    /\ UNCHANGED NotDecode

\* part.read(decode = True)
ReadDecode ==
    /\ dresult = None
    /\ dresult' = Some([op |-> "read"] @@ read_decode(dpart.headers, dchunks))
    /\ UNCHANGED <<dpart, dchunks>>
    /\ UNCHANGED NotDecode

DecodeNext == Decode \/ ReadDecode

----------------------------------------------------------------------------
(* The payload classes: construction, content_type and write.  A str is
   the sequence of its code points, a file name and a content type are
   whole words. *)

\* BIG_CHUNK_LIMIT, 1 << 16 in the source, scaled down to the streams below
BIG_CHUNK_LIMIT == 2

\* the longest value or stream
MaxStream == 4

\* the latest read, and the latest write of the sink, that may raise
MaxFault == 2

StreamBacked ==
    {"IOBasePayload", "TextIOPayload", "BytesIOPayload", "BufferedReaderPayload", "AsyncIOPayload"}

PayloadKinds ==
    StreamBacked \cup {"BytesPayload", "StringPayload", "StringIOPayload", "AsyncIterablePayload"}

\* str.encode(encoding) for utf-8 and latin-1, of code points below 256
RECURSIVE encode(_, _)
encode(text, encoding) ==
    IF text = <<>> THEN <<>>
    ELSE (IF Head(text) < 128 \/ encoding = "latin-1" THEN <<Head(text)>>
          ELSE <<192 + (Head(text) \div 64), 128 + (Head(text) % 64)>>)
         \o encode(Tail(text), encoding)

\* mimetypes.guess_type(filename)[0]
guess_type(filename) ==
    IF filename = "a.png" THEN Some("image/png")
    ELSE IF filename = "b.txt" THEN Some("text/plain")
    ELSE None

\* MimeType(content_type).params.get('charset', 'utf-8')
charset(mimetype) ==
    IF mimetype = "text/html; charset=latin-1" THEN "latin-1" ELSE "utf-8"

\* payload_superclass.__init__; kw holds the keyword arguments, None for one
\* that is not passed.  Supplied headers go to the attribute `headrs`, and
\* the payload is left without an attribute `headers` (has_headers)
payload_superclass(value, kw) ==
    LET given == kw.headers # None /\ kw.headers[1] # <<>>
    IN [value |-> value,
        encoding |-> kw.encoding,
        filename |-> kw.filename,
        has_headers |-> ~given,
        headers |-> None,
        headrs |-> IF given THEN kw.headers ELSE None,
        _content_type |-> IF kw.content_type = None /\ given /\ Has(kw.headers[1], "Content-Type")
                          THEN Some(Get(kw.headers[1], "Content-Type"))
                          ELSE kw.content_type,
        _size |-> None]

\* the content_type property
content_type(payload) ==
    IF payload._content_type # None THEN payload._content_type[1]
    ELSE IF payload.filename # None
         THEN LET mime == guess_type(payload.filename[1])
              IN IF mime = None THEN "application/octet-stream" ELSE mime[1]
    ELSE "application/octet-stream"

\* BytesPayload.__init__
BytesPayload_init(value, kw) ==
    [payload_superclass(value,
        [kw EXCEPT !.content_type = IF @ = None THEN Some("application/octet-stream") ELSE @])
     EXCEPT !._size = Some(Len(value))]

\* the encoding and the content type StringPayload.__init__ and
\* TextIOPayload.__init__ pass on
TextDefaults(kw) ==
    IF kw.encoding = None
    THEN IF kw.content_type = None
         THEN [kw EXCEPT !.encoding = Some("utf-8"), !.content_type = Some("text/plain; charset=utf-8")]
         ELSE [kw EXCEPT !.encoding = Some(charset(kw.content_type[1]))]
    ELSE IF kw.content_type = None
         THEN [kw EXCEPT !.content_type =
                  Some(IF kw.encoding[1] = "latin-1" THEN "text/plain; charset=latin-1"
                       ELSE "text/plain; charset=utf-8")]
         ELSE kw

\* StringPayload.__init__
StringPayload_init(value, kw) ==
    BytesPayload_init(encode(value, TextDefaults(kw).encoding[1]), TextDefaults(kw))

\* IOBasePayload.__init__ with the default disposition; the header value
\* content_disposition_header makes is kept as its arguments
IOBasePayload_init(value, kw) ==
    LET named == IF kw.filename = None THEN [kw EXCEPT !.filename = value.name] ELSE kw
        made_payload == payload_superclass(<<>>, named)
    IN IF made_payload.filename = None THEN [err |-> "none", obj |-> Some(made_payload)]
       ELSE IF ~made_payload.has_headers THEN [err |-> "AttributeError", obj |-> None]
       ELSE [err |-> "none",
             obj |-> Some([made_payload EXCEPT !.headers =
                        Some(<<<<"Content-Disposition", <<"attachment", made_payload.filename[1]>>>>>>)])]

\* create_payload(data, **kw) for data of the type that kind goes with
new_payload(kind, value, kw) ==
    IF kind = "BytesPayload" THEN [err |-> "none", obj |-> Some(BytesPayload_init(value.left, kw))]
    ELSE IF kind = "StringPayload" THEN [err |-> "none", obj |-> Some(StringPayload_init(value.left, kw))]
    ELSE IF kind = "StringIOPayload" THEN [err |-> "TypeError", obj |-> None]
    ELSE IF kind = "TextIOPayload" THEN IOBasePayload_init(value, TextDefaults(kw))
    ELSE IF kind = "AsyncIterablePayload"
         THEN [err |-> "none",
               obj |-> Some(payload_superclass(<<>>,
                   [kw EXCEPT !.content_type = IF @ = None THEN Some("application/octet-stream") ELSE @]))]
    ELSE IOBasePayload_init(value, kw)

AtMost(a, b) == IF a < b THEN a ELSE b

\* what one read(size) of the stream, or one __anext__ of the iterator,
\* returns: the source gives at most `step` units at once
Taken(source, size) == SubSeq(source.left, 1, AtMost(AtMost(size, source.step), Len(source.left)))

After(source, chunk) ==
    [source EXCEPT !.left = SubSeq(@, Len(chunk) + 1, Len(@)), !.reads = @ + 1]

\* the loop of IOBasePayload.write; fault names the read and the write of
\* the sink that raise (0: none does)
RECURSIVE IOBasePayload_loop(_, _, _)
IOBasePayload_loop(source, chunks, fault) ==
    IF fault.read = source.reads + 1 THEN [err |-> "read", source |-> source, chunks |-> chunks]
    ELSE LET chunk == Taken(source, BIG_CHUNK_LIMIT)
         IN IF chunk # <<>>
            THEN IF fault.write = Len(chunks) + 1
                 THEN [err |-> "write", source |-> After(source, chunk), chunks |-> chunks]
                 ELSE IOBasePayload_loop(After(source, chunk), Append(chunks, chunk), fault)
            ELSE [err |-> "none", source |-> After(source, chunk), chunks |-> chunks]

\* the loop of TextIOPayload.write
RECURSIVE TextIOPayload_loop(_, _, _, _)
TextIOPayload_loop(source, chunks, fault, encoding) ==
    IF fault.read = source.reads + 1 THEN [err |-> "read", source |-> source, chunks |-> chunks]
    ELSE LET chunk == Taken(source, BIG_CHUNK_LIMIT)
         IN IF chunk # <<>>
            THEN IF fault.write = Len(chunks) + 1
                 THEN [err |-> "write", source |-> After(source, chunk), chunks |-> chunks]
                 ELSE TextIOPayload_loop(After(source, chunk), Append(chunks, encode(chunk, encoding)),
                                         fault, encoding)
            ELSE [err |-> "none", source |-> After(source, chunk), chunks |-> chunks]

\* the loop of AsyncIOPayload.write
RECURSIVE AsyncIOPayload_loop(_, _, _)
AsyncIOPayload_loop(source, chunks, fault) ==
    IF fault.read = source.reads + 1 THEN [err |-> "read", source |-> source, chunks |-> chunks]
    ELSE LET chunk == Taken(source, BIG_CHUNK_LIMIT)
         IN IF fault.write = Len(chunks) + 1
            THEN [err |-> "write", source |-> After(source, chunk), chunks |-> chunks]
            ELSE IF Len(chunk) < BIG_CHUNK_LIMIT
                 THEN [err |-> "none", source |-> After(source, chunk), chunks |-> Append(chunks, chunk)]
                 ELSE AsyncIOPayload_loop(After(source, chunk), Append(chunks, chunk), fault)

\* the loop of AsyncIterablePayload.write: __anext__ raises
\* StopAsyncIteration when the iterator has nothing left
RECURSIVE AsyncIterablePayload_loop(_, _, _)
AsyncIterablePayload_loop(source, chunks, fault) ==
    IF fault.read = source.reads + 1 THEN [err |-> "read", source |-> source, chunks |-> chunks]
    ELSE IF source.left = <<>> THEN [err |-> "none", source |-> After(source, <<>>), chunks |-> chunks]
    ELSE LET chunk == Taken(source, Len(source.left))
         IN IF fault.write = Len(chunks) + 1
            THEN [err |-> "write", source |-> After(source, chunk), chunks |-> chunks]
            ELSE AsyncIterablePayload_loop(After(source, chunk), Append(chunks, chunk), fault)

\* a close that is skipped when the loop raised
finally_close_OnReturn(done) ==
    IF done.err = "none" THEN [done EXCEPT !.source.closes = @ + 1] ELSE done

\* finally: self.value.close(), on the return and on the exception alike
finally_close(done) == [done EXCEPT !.source.closes = @ + 1]

\* BytesPayload.write: the value goes to the sink in one call
BytesPayload_write(payload, source, fault) ==
    IF fault.write = 1 THEN [err |-> "write", source |-> source, chunks |-> <<>>]
    ELSE [err |-> "none", source |-> source, chunks |-> <<payload.value>>]

\* payload.write(sink) of a payload of that kind
write_payload(kind, payload, source, fault) ==
    IF kind \in {"BytesPayload", "StringPayload"} THEN BytesPayload_write(payload, source, fault)
    ELSE IF kind = "AsyncIterablePayload" THEN AsyncIterablePayload_loop(source, <<>>, fault)
    ELSE IF kind = "TextIOPayload"
         THEN finally_close(TextIOPayload_loop(source, <<>>, fault, payload.encoding[1]))
    ELSE IF kind = "AsyncIOPayload" THEN finally_close(AsyncIOPayload_loop(source, <<>>, fault))
    ELSE finally_close(IOBasePayload_loop(source, <<>>, fault))

\* the values and streams payloads are made of: code points of 'a' and of
\* e with an acute accent
Sources ==
    {[left |-> left, name |-> name, step |-> step, closes |-> 0, reads |-> 0] :
        left \in UNION {[1..n -> {97, 233}] : n \in 0..MaxStream},
        name \in {None, Some("b.txt")},
        step \in {1, MaxStream}}

\* the keyword arguments of a payload
PayloadKeywords ==
    [content_type : {None, Some("image/gif"), Some("text/html; charset=latin-1")},
     filename : {None, Some("a.png"), Some("a.zzzq")},
     headers : {None, Some(<<<<"Content-Type", "image/jpeg">>>>)},
     encoding : {None, Some("latin-1")}]

PayloadInit ==
    /\ stream \in Sources
    /\ pay = None
    /\ taken = <<>>
    /\ wrote = None

PayloadOff ==
    /\ stream = [left |-> <<>>, name |-> None, step |-> 1, closes |-> 0, reads |-> 0]
    /\ pay = None
    /\ taken = <<>>
    /\ wrote = None

\* create_payload(data, **kw)
CreatePayload ==
    /\ pay = None
    /\ \E kind \in PayloadKinds, kw \in PayloadKeywords :
         pay' = Some([kind |-> kind, kw |-> kw] @@ new_payload(kind, stream, kw))
    /\ UNCHANGED <<stream, taken, wrote>>
    /\ UNCHANGED NotPayload

\* await payload.write(sink)
WritePayload ==
    /\ pay # None /\ pay[1].err = "none"
    /\ wrote = None
    /\ \E fault \in [read : 0..MaxFault, write : 0..MaxFault] :
         LET done == write_payload(pay[1].kind, pay[1].obj[1], stream, fault)
         IN /\ stream' = done.source
            /\ taken' = done.chunks
            /\ wrote' = Some([err |-> done.err, fault |-> fault])
    /\ UNCHANGED pay
    /\ UNCHANGED NotPayload

PayloadNext == CreatePayload \/ WritePayload

----------------------------------------------------------------------------
(* ComponentInteractionIterator and its consumer, the loop of
   iter_component_interactions.  Events are numbered in the order of their
   __call__; a future is None, pending, or done with a result or an
   exception; the task awaiting a done future resumes in a later step. *)

\* the events whose __call__ is followed
MaxEvents == 4

\* the largest count an iterator is created with
MaxCount == 2

Pending == [state |-> "pending", value |-> None]

\* Future.set_result_if_pending and Future.set_exception_if_pending
set_if_pending(future, state, value) ==
    IF future.state = "pending" THEN [state |-> state, value |-> Some(value)] ELSE future

\* ComponentInteractionIterator.__new__
ComponentInteractionIterator(check, timeout, yields) ==
    [_exception |-> None,
     _future |-> None,
     _finished |-> FALSE,
     _check |-> check,
     _timeouter |-> timeout,
     _queue |-> None,
     timeout |-> timeout,
     count |-> yields,
     removed |-> 0]

\* ComponentInteractionIterator.cancel(exception); exception is None or
\* Some(name).  _timeouter stands for the timeouter while it can expire,
\* removed counts the called of remove_component_interaction_waiter
cancel(self, exception) ==
    IF self._finished THEN self
    ELSE [self EXCEPT
            !._finished = TRUE,
            !._exception = exception,
            !._timeouter = None,
            !.removed = @ + 1,
            !._future = IF @ = None THEN @
                        ELSE IF exception = None THEN Some(set_if_pending(@[1], "result", None))
                        ELSE Some(set_if_pending(@[1], "exception", exception[1]))]

\* ComponentInteractionIterator._feed_result(result); set_timeout of a
\* positive timeout leaves the timeouter able to expire
feed_result(self, result) ==
    LET fed == IF self._future = None
               THEN [self EXCEPT !._queue = IF @ = None THEN Some(<<result>>) ELSE Some(Append(@[1], result))]
               ELSE [self EXCEPT !._future = Some(set_if_pending(@[1], "result", Some(result)))]
    IN IF self.count - 1 # 0 THEN [fed EXCEPT !.count = self.count - 1]
       ELSE cancel(fed, None)

\* ComponentInteractionIterator.__call__(event); checked is what
\* check(event) does: "True", "False", "value" (not a bool), "raise"
call(self, event, checked) ==
    IF self._check = None THEN feed_result(self, [event |-> event, result |-> None])
    ELSE IF checked = "raise" THEN cancel(self, Some("CheckError"))
    ELSE IF checked = "True" THEN feed_result(self, [event |-> event, result |-> None])
    ELSE IF checked = "False" THEN self
    ELSE feed_result(self, [event |-> event, result |-> Some("value")])

\* ComponentInteractionIterator.__await__ up to its first suspension:
\* what it returns or raises at once, or the future it waits on
await(self) ==
    IF self._future = None
    THEN IF self._queue = None
         THEN IF self._finished
              THEN IF self._exception = None
                   THEN [self |-> self, how |-> "return", value |-> None]
                   ELSE [self |-> self, how |-> "raise", value |-> self._exception]
              ELSE [self |-> [self EXCEPT !._future = Some(Pending)], how |-> "wait", value |-> None]
         ELSE [self |-> [self EXCEPT !._queue = IF Len(@[1]) = 1 THEN None ELSE Some(Tail(@[1]))],
               how |-> "return", value |-> Some(Head(self._queue[1]))]
    ELSE [self |-> self, how |-> "wait", value |-> None]

\* the loop of iter_component_interactions after `await` gave value or
\* raised: the event is yielded, None ends the loop, and on every way out
\* the iterator is cancelled
Loop(self, task, how, value) ==
    IF how = "raise"
    THEN [self |-> cancel(self, None), task |-> [task EXCEPT !.pc = "done", !.ended = value[1]]]
    ELSE IF value = None
    THEN [self |-> cancel(self, None), task |-> [task EXCEPT !.pc = "done", !.ended = "None"]]
    ELSE [self |-> self, task |-> [task EXCEPT !.pc = "running", !.got = Append(@, value[1])]]

IteratorInit ==
    /\ \E check \in {None, Some("check")}, timeout \in {None, Some("timeout")},
          yields \in (1..MaxCount) \cup {-1} :
         /\ iargs = [check |-> check, timeout |-> timeout, count |-> yields]
         /\ iterator = ComponentInteractionIterator(check, timeout, yields)
    /\ consumer = [pc |-> "running", got |-> <<>>, ended |-> "no"]
    /\ called = <<>>

IteratorOff ==
    /\ iargs = [check |-> None, timeout |-> None, count |-> 0]
    /\ iterator = ComponentInteractionIterator(None, None, 0)
    /\ consumer = [pc |-> "off", got |-> <<>>, ended |-> "no"]
    /\ called = <<>>

\* await iterator(event), for the next event
IteratorCall ==
    /\ consumer.pc # "off"
    /\ Len(called) < MaxEvents
    /\ \E checked \in IF iterator._check = None THEN {"none"} ELSE {"True", "False", "value", "raise"} :
         /\ iterator' = call(iterator, Len(called) + 1, checked)
         /\ called' = Append(called, [event |-> Len(called) + 1, checked |-> checked,
                                    finished |-> iterator._finished])
    /\ UNCHANGED <<iargs, consumer>>
    /\ UNCHANGED NotIterator

\* the consumer's `result = await component_interaction_iterator`, up to the
\* suspension on the future or, when __await__ returns at once, the rest of
\* the loop's turn
IteratorAwait ==
    /\ consumer.pc = "running"
    /\ LET step == await(iterator)
       IN IF step.how = "wait"
          THEN /\ iterator' = step.self
               /\ consumer' = [consumer EXCEPT !.pc = "waiting"]
          ELSE /\ iterator' = Loop(step.self, consumer, step.how, step.value).self
               /\ consumer' = Loop(step.self, consumer, step.how, step.value).task
    /\ UNCHANGED <<iargs, called>>
    /\ UNCHANGED NotIterator

\* the consumer resumes from its done future: finally the iterator's
\* _future is set to None, then the rest of the loop's turn
IteratorResume ==
    /\ consumer.pc = "waiting"
    /\ iterator._future # None /\ iterator._future[1].state # "pending"
    /\ LET future == iterator._future[1]
           how == IF future.state = "exception" THEN "raise" ELSE "return"
           value == IF future.state = "exception" THEN future.value ELSE future.value[1]
           self == [iterator EXCEPT !._future = None]
       IN /\ iterator' = Loop(self, consumer, how, value).self
          /\ consumer' = Loop(self, consumer, how, value).task
    /\ UNCHANGED <<iargs, called>>
    /\ UNCHANGED NotIterator

\* Timeouter._step when the time is over: owner.cancel(TimeoutError())
IteratorTimeout ==
    /\ iterator._timeouter # None
    /\ iterator' = cancel(iterator, Some("TimeoutError"))
    /\ UNCHANGED <<iargs, consumer, called>>
    /\ UNCHANGED NotIterator

\* iterator.cancel() by the holder of the iterator
IteratorCancel ==
    /\ consumer.pc # "off"
    /\ ~iterator._finished
    /\ iterator' = cancel(iterator, None)
    /\ UNCHANGED <<iargs, consumer, called>>
    /\ UNCHANGED NotIterator

IteratorNext ==
    IteratorCall \/ IteratorAwait \/ IteratorResume \/ IteratorTimeout \/ IteratorCancel

----------------------------------------------------------------------------
(* Timeouter and its owner, a ComponentInteractionWaiter.  Time is counted
   in whole units; the event loop holds the timer handles that were
   scheduled and neither run nor cancelled, and runs a handle when its time
   has come.  The operators take and give the whole of it: the timeouter,
   the loop, the waiter and what was seen so far. *)

\* the latest time the loop's clock reaches
MaxTime == 6

\* the largest timeout a waiter is created with or set_timeout is given
MaxTimeout == 3

\* the most calls of set_timeout that are followed
MaxSets == 2

\* KOKORO.call_at(when, Timeouter._step, self), assigned to self._handle
call_at(s, when) ==
    LET timer == [id |-> s.loop.made + 1, when |-> when]
    IN [s EXCEPT !.loop.made = @ + 1,
                 !.loop.handles = @ \cup {timer},
                 !.timeouter._handle = Some(timer)]

\* KOKORO.call_later(delay, Timeouter._step, self), assigned to self._handle
call_later(s, delay) == call_at(s, s.loop.now + delay)

\* TimerHandle.cancel()
handle_cancel(s, timer) == [s EXCEPT !.loop.handles = @ \ {timer}]

\* Timeouter.__init__(owner, timeout)
Timeouter(s, timeout) ==
    call_later([s EXCEPT !.timeouter = [_owner |-> Some("waiter"), _timeout |-> 0, _handle |-> None]],
               timeout)

\* a cancel that keeps the owner
Timeouter_cancel_KeepsOwner(s) ==
    IF s.timeouter._handle # None
    THEN [handle_cancel(s, s.timeouter._handle[1]) EXCEPT !.timeouter._handle = None]
    ELSE s

\* Timeouter.cancel()
Timeouter_cancel(s) ==
    IF s.timeouter._handle # None
    THEN [handle_cancel(s, s.timeouter._handle[1]) EXCEPT
            !.timeouter._handle = None,
            !.timeouter._owner = None]
    ELSE s

\* a cancel of the waiter that does not look at _finished
Waiter_cancel_Again(s, exception) ==
    LET s1 == [s EXCEPT !.waiter._finished = TRUE]
        s2 == IF s1.waiter._timeouter # None
              THEN Timeouter_cancel([s1 EXCEPT !.waiter._timeouter = None,
                                               !.seen.timeouter_cancels = @ + 1])
              ELSE s1
    IN [s2 EXCEPT !.seen.removed = @ + 1,
                  !.waiter._future = IF exception = None THEN set_if_pending(@, "result", None)
                                     ELSE set_if_pending(@, "exception", exception[1])]

\* ComponentInteractionWaiter.cancel(exception); seen counts the calls of
\* timeouter.cancel and of remove_component_interaction_waiter
Waiter_cancel(s, exception) ==
    IF s.waiter._finished THEN s
    ELSE LET s1 == [s EXCEPT !.waiter._finished = TRUE]
             s2 == IF s1.waiter._timeouter # None
                   THEN Timeouter_cancel([s1 EXCEPT !.waiter._timeouter = None,
                                                    !.seen.timeouter_cancels = @ + 1])
                   ELSE s1
         IN [s2 EXCEPT !.seen.removed = @ + 1,
                       !.waiter._future = IF exception = None THEN set_if_pending(@, "result", None)
                                          ELSE set_if_pending(@, "exception", exception[1])]

\* Timeouter._step(); seen holds when the owner was cancelled with
\* TimeoutError, each time
Timeouter_step(s) ==
    IF s.timeouter._timeout > 0
    THEN [call_later(s, s.timeouter._timeout) EXCEPT !.timeouter._timeout = 0]
    ELSE LET s1 == [s EXCEPT !.timeouter._handle = None]
         IN IF s1.timeouter._owner # None
            THEN Waiter_cancel([s1 EXCEPT !.timeouter._owner = None,
                                          !.seen.timed_out = Append(@, s.loop.now)],
                               Some("TimeoutError"))
            ELSE s1

\* Timeouter.set_timeout(value)
set_timeout(s, value) ==
    LET timer == s.timeouter._handle[1]
        now == s.loop.now
        next_step == timer.when
        planed_end == now + value
    IN IF s.timeouter._handle = None THEN s
       ELSE IF value <= 0
       THEN Timeouter_step(handle_cancel([s EXCEPT !.timeouter._timeout = 0], timer))
       ELSE IF planed_end < next_step
       THEN call_at(handle_cancel(s, timer), planed_end)
       ELSE [s EXCEPT !.timeouter._timeout = planed_end - next_step]

\* Timeouter.get_expiration_delay()
get_expiration_delay(s) ==
    IF s.timeouter._handle = None THEN 0
    ELSE s.timeouter._handle[1].when - s.loop.now + s.timeouter._timeout

\* ComponentInteractionWaiter.__new__(client, message, check, timeout)
ComponentInteractionWaiter(s, check, timeout) ==
    LET s1 == [s EXCEPT !.waiter = [_finished |-> FALSE, _future |-> Pending, _check |-> check,
                                    _timeouter |-> None]]
    IN IF timeout # None
       THEN [Timeouter(s1, timeout[1]) EXCEPT !.waiter._timeouter = Some("timeouter")]
       ELSE s1

\* ComponentInteractionWaiter.__call__(event); checked is what check(event)
\* does: "True", "False", "value" (not a bool), "raise"
Waiter_call(s, event, checked) ==
    LET set(state, value) == [s EXCEPT !.waiter._future = set_if_pending(@, state, value)]
    IN IF s.waiter._check = None THEN Waiter_cancel(set("result", Some(event)), None)
       ELSE IF checked = "raise" THEN Waiter_cancel(set("exception", "CheckError"), None)
       ELSE IF checked = "True" THEN Waiter_cancel(set("result", Some(event)), None)
       ELSE IF checked = "False" THEN s
       ELSE Waiter_cancel(set("result", Some(<<event, "value">>)), None)

\* nothing was made yet
Nothing ==
    [timeouter |-> [_owner |-> None, _timeout |-> 0, _handle |-> None],
     loop |-> [now |-> 0, handles |-> {}, made |-> 0],
     waiter |-> [_finished |-> FALSE, _future |-> Pending, _check |-> None, _timeouter |-> None],
     seen |-> [timed_out |-> <<>>, removed |-> 0, timeouter_cancels |-> 0, sets |-> 0,
               due |-> None, cancelled |-> FALSE, last |-> "none"]]

\* the whole as one value, and the whole in the next state
Now == [timeouter |-> timeouter, loop |-> evloop, waiter |-> waiter, seen |-> seen]

Becomes(s) ==
    /\ timeouter' = s.timeouter
    /\ evloop' = s.loop
    /\ waiter' = s.waiter
    /\ seen' = s.seen

WaiterInit ==
    \E check \in {None, Some("check")}, timeout \in {None} \cup {Some(n) : n \in 1..MaxTimeout} :
        LET s == ComponentInteractionWaiter(Nothing, check, timeout)
            s1 == [s EXCEPT !.seen.due = IF timeout = None THEN None ELSE Some(timeout[1]),
                            !.seen.last = "new"]
        IN /\ timeouter = s1.timeouter
           /\ evloop = s1.loop
           /\ waiter = s1.waiter
           /\ seen = s1.seen

WaiterOff ==
    /\ timeouter = Nothing.timeouter
    /\ evloop = Nothing.loop
    /\ waiter = Nothing.waiter
    /\ seen = Nothing.seen

\* await waiter(event): the slasher passes an event on
WaiterCall ==
    /\ seen.last # "none"
    /\ \E event \in {"e1", "e2"},
          checked \in IF waiter._check = None THEN {"none"} ELSE {"True", "False", "value", "raise"} :
         Becomes([Waiter_call(Now, event, checked) EXCEPT !.seen.last = "call " \o checked])
    /\ UNCHANGED NotWaiter

\* waiter.cancel() by the holder of the waiter
WaiterCancel ==
    /\ seen.last # "none"
    /\ Becomes([Waiter_cancel(Now, None) EXCEPT !.seen.last = "cancel"])
    /\ UNCHANGED NotWaiter

\* timeouter.set_timeout(value); on a timeouter that has not expired the
\* time it is to expire at is now + value
SetTimeout ==
    /\ seen.last # "none"
    /\ seen.sets < MaxSets
    /\ \E value \in 0..MaxTimeout :
         LET s == set_timeout(Now, value)
         IN Becomes([s EXCEPT !.seen.sets = @ + 1,
                              !.seen.last = IF timeouter._handle = None THEN "set_timeout, expired"
                                            ELSE IF value > 0 THEN "set_timeout" ELSE "set_timeout, at once",
                              !.seen.due = IF timeouter._handle = None THEN @
                                           ELSE Some(evloop.now + value)])
    /\ UNCHANGED NotWaiter

\* timeouter.cancel(), called on the timeouter itself
TimeouterCancel ==
    /\ seen.last # "none"
    /\ Becomes([Timeouter_cancel(Now) EXCEPT !.seen.cancelled = TRUE, !.seen.last = "Timeouter.cancel"])
    /\ UNCHANGED NotWaiter

\* the loop runs a handle whose time has come: Timeouter._step
TimerFires ==
    /\ \E timer \in evloop.handles :
         /\ timer.when <= evloop.now
         /\ Becomes([Timeouter_step([Now EXCEPT !.loop.handles = @ \ {timer}]) EXCEPT !.seen.last = "_step"])
    /\ UNCHANGED NotWaiter

\* time passes, when no handle is waiting to be run
Tick ==
    /\ seen.last # "none"
    /\ evloop.now < MaxTime
    /\ \A timer \in evloop.handles : timer.when > evloop.now
    /\ evloop' = [evloop EXCEPT !.now = @ + 1]
    /\ seen' = [seen EXCEPT !.last = "tick"]
    /\ UNCHANGED <<timeouter, waiter>>
    /\ UNCHANGED NotWaiter

WaiterNext ==
    WaiterCall \/ WaiterCancel \/ SetTimeout \/ TimeouterCancel \/ TimerFires \/ Tick

----------------------------------------------------------------------------
(* The components that a specification leaves out stay as they are here. *)

ReaderOff ==
    /\ orig = <<>>
    /\ content = <<>>
    /\ rd = NewReader(Boundary, None)
    /\ ret = <<>>
    /\ err = "none"
    /\ ops = <<>>
    /\ last = [op |-> "off", size |-> 0, line |-> None]
    /\ out = <<>>
    /\ cuts = {}
    /\ used = {}
    /\ pc = "off"
    /\ data = <<>>

----------------------------------------------------------------------------
(* The reader's state machine. *)

ReaderInit ==
    /\ orig \in Streams
    /\ content = orig
    /\ \E length \in Lengths : rd = NewReader(Boundary, length)
    /\ ret = <<>>
    /\ err = "none"
    /\ ops = <<>>
    /\ last = [op |-> "init", size |-> 0, line |-> None]
    /\ out = <<>>
    /\ cuts = {}
    /\ used = {}
    /\ pc = "idle"
    /\ data = <<>>

\* one call of read_chunk(size), made by `who`, which then returns `value`
Chunk(who, size, res, value) ==
    /\ rd' = res.rd
    /\ content' = res.content
    /\ ret' = value
    /\ err' = "none"
    /\ ops' = res.ops
    /\ last' = [op |-> who, size |-> size, line |-> None]
    /\ out' = out \o res.ret
    /\ cuts' = cuts \cup CutsOf(res.ops, Pos)
    /\ used' = used \cup {"chunk"}
    /\ UNCHANGED orig

ReadChunk ==
    /\ pc = "idle"
    /\ \E size \in Sizes :
         \E k1 \in FirstLens(rd, content, size) :
           \E k2 \in SecondLens(rd, content, size, k1) :
             LET res == read_chunk(rd, content, size, k1, k2)
             IN Chunk("read_chunk", size, res, res.ret)
    /\ UNCHANGED <<pc, data>>
    /\ UNCHANGED NotReader

\* read(): the guard, then the loop is entered
Read ==
    /\ pc = "idle"
    /\ IF AtEofGuard(rd)
       THEN UNCHANGED <<pc, data>>
       ELSE /\ pc' = "read"
            /\ data' = <<>>
    /\ ret' = <<>>
    /\ ops' = <<>>
    /\ err' = "none"
    /\ last' = [op |-> "read", size |-> 0, line |-> None]
    /\ UNCHANGED <<rd, content, out, orig, cuts, used>>
    /\ UNCHANGED NotReader

\* a loop that is left after its first turn
LoopLeft_AfterOneTurn(r) == TRUE

\* `while not self._at_eof` of read() and release(): the loop is left
LoopLeft(r) == r.at_eof

\* one turn of read()'s loop; read() returns once at_eof is set
ReadLoop ==
    /\ pc = "read"
    /\ ~rd.at_eof
    /\ \E k1 \in FirstLens(rd, content, chunk_size) :
         \E k2 \in SecondLens(rd, content, chunk_size, k1) :
           LET res == read_chunk(rd, content, chunk_size, k1, k2)
           IN /\ Chunk("read", chunk_size, res, IF LoopLeft(res.rd) THEN data \o res.ret ELSE <<>>)
              /\ data' = IF LoopLeft(res.rd) THEN <<>> ELSE data \o res.ret
              /\ pc' = IF LoopLeft(res.rd) THEN "idle" ELSE "read"
    /\ UNCHANGED NotReader

\* release(): the guard, then the loop is entered
Release ==
    /\ pc = "idle"
    /\ pc' = IF AtEofGuard(rd) THEN "idle" ELSE "release"
    /\ ret' = <<>>
    /\ ops' = <<>>
    /\ err' = "none"
    /\ last' = [op |-> "release", size |-> 0, line |-> None]
    /\ UNCHANGED <<rd, content, out, orig, cuts, used, data>>
    /\ UNCHANGED NotReader

\* one turn of release()'s loop
ReleaseLoop ==
    /\ pc = "release"
    /\ ~rd.at_eof
    /\ \E k1 \in FirstLens(rd, content, chunk_size) :
         \E k2 \in SecondLens(rd, content, chunk_size, k1) :
           LET res == read_chunk(rd, content, chunk_size, k1, k2)
           IN /\ Chunk("release", chunk_size, res, <<>>)
              /\ pc' = IF LoopLeft(res.rd) THEN "idle" ELSE "release"
    /\ UNCHANGED data
    /\ UNCHANGED NotReader

\* readline()
Readline ==
    /\ pc = "idle"
    /\ LET res == readline(rd, content)
       IN /\ rd' = res.rd
          /\ content' = res.content
          /\ ret' = res.ret
          /\ ops' = res.ops
          /\ last' = [op |-> "readline", size |-> 0, line |-> res.line]
    /\ err' = "none"
    /\ used' = used \cup {"line"}
    /\ UNCHANGED <<out, orig, cuts, pc, data>>
    /\ UNCHANGED NotReader

Next ==
    \/ ReadChunk
    \/ Read
    \/ ReadLoop
    \/ Release
    \/ ReleaseLoop
    \/ Readline

\* a reader in use; no other component is
Init == ReaderInit /\ PayloadWriterOff /\ ContentDispositionOff /\ WriterOff /\ FilenameOff /\ BoundaryOff /\ DecodeOff /\ PayloadOff /\ IteratorOff /\ WaiterOff

Spec == Init /\ [][Next]_vars

\* a payload writer in use; no other component is
InitPayloadWriter == PayloadWriterInit /\ ReaderOff /\ ContentDispositionOff /\ WriterOff /\ FilenameOff /\ BoundaryOff /\ DecodeOff /\ PayloadOff /\ IteratorOff /\ WaiterOff

SpecPayloadWriter == InitPayloadWriter /\ [][PayloadWriterNext]_vars

\* headers given to parse_content_disposition; no other component is in use
InitContentDisposition == ContentDispositionInit /\ ReaderOff /\ PayloadWriterOff /\ WriterOff /\ FilenameOff /\ BoundaryOff /\ DecodeOff /\ PayloadOff /\ IteratorOff /\ WaiterOff

SpecContentDisposition == InitContentDisposition /\ [][ContentDispositionNext]_vars

\* a MultipartWriter filled, written and read back; no other component is
\* in use
InitWriter == WriterInit /\ ReaderOff /\ PayloadWriterOff /\ ContentDispositionOff /\ FilenameOff /\ BoundaryOff /\ DecodeOff /\ PayloadOff /\ IteratorOff /\ WaiterOff

SpecWriter == InitWriter /\ [][WriterNext]_vars

\* a MultipartWriter filled by a caller that names encodings, and written;
\* no other component is in use
SpecAppend == InitWriter /\ [][AppendNext]_vars

\* params given to content_disposition_filename; no other component is in use
InitFilename ==
    FilenameInit /\ ReaderOff /\ PayloadWriterOff /\ ContentDispositionOff /\ WriterOff /\ BoundaryOff /\ DecodeOff /\ PayloadOff /\ IteratorOff /\ WaiterOff

SpecFilename == InitFilename /\ [][FilenameNext]_vars

\* a MultipartWriter constructed with a boundary; no other component is in use
InitBoundary ==
    BoundaryInit /\ ReaderOff /\ PayloadWriterOff /\ ContentDispositionOff /\ WriterOff /\ FilenameOff /\ DecodeOff /\ PayloadOff /\ IteratorOff /\ WaiterOff

SpecBoundary == InitBoundary /\ [][BoundaryNext]_vars

\* parts given to BodyPartReader.decode; no other component is in use
InitDecode ==
    DecodeInit /\ ReaderOff /\ PayloadWriterOff /\ ContentDispositionOff /\ WriterOff /\ FilenameOff /\ PayloadOff /\ IteratorOff /\ WaiterOff
        /\ BoundaryOff

SpecDecode == InitDecode /\ [][DecodeNext]_vars

\* a value or a stream to make a payload of; no other component is in use
InitPayload ==
    PayloadInit /\ ReaderOff /\ PayloadWriterOff /\ ContentDispositionOff /\ WriterOff /\ FilenameOff /\ IteratorOff /\ WaiterOff
        /\ BoundaryOff /\ DecodeOff

SpecPayload == InitPayload /\ [][PayloadNext]_vars

\* an iterator and the loop consuming it; no other component is in use
InitIterator ==
    IteratorInit /\ ReaderOff /\ PayloadWriterOff /\ ContentDispositionOff /\ WriterOff /\ FilenameOff /\ WaiterOff
        /\ BoundaryOff /\ DecodeOff /\ PayloadOff

SpecIterator == InitIterator /\ [][IteratorNext]_vars

\* a waiter and its timeouter; no other component is in use
InitWaiter ==
    WaiterInit /\ ReaderOff /\ PayloadWriterOff /\ ContentDispositionOff /\ WriterOff /\ FilenameOff
        /\ BoundaryOff /\ DecodeOff /\ PayloadOff /\ IteratorOff

SpecWaiter == InitWaiter /\ [][WaiterNext]_vars

----------------------------------------------------------------------------
(* Claims about BodyPartReader, checked under Spec. *)

ChunkCallers == {"read_chunk", "read", "release"}

\* s is a prefix of t
IsPrefix(s, t) == Len(s) <= Len(t) /\ SubSeq(t, 1, Len(s)) = s

\* the transport reads of the last call
ReadOps == {i \in 1..Len(ops) : ops[i].op = "read"}
UnreadOps == {i \in 1..Len(ops) : ops[i].op = "unread"}
ReadlineOps == {i \in 1..Len(ops) : ops[i].op = "readline"}

\* the reader scans for the boundary, was driven through read_chunk only (by
\* itself or by read / release), and exactly one transport read ended
\* inside the first CRLF+boundary of the stream
StraddledOnce ==
    /\ rd.length = None
    /\ used = {"chunk"}
    /\ SubAt >= 0
    /\ Cardinality(cuts) = 1

\* C2: with CRLF+boundary split between two consecutive transport reads, the
\* chunks read_chunk returns are the body bytes before the CRLF: never a
\* byte of the CRLF+boundary, and all of the body once end-of-part is set.
C2_BoundaryStraddling ==
    StraddledOnce => /\ IsPrefix(out, Body)
                     /\ rd.at_eof => out = Body

\* C3: once end-of-part is set it stays set, and every later read_chunk,
\* read, readline or release returns empty, leaves the reader as it is and
\* makes no read, readline or unread on the transport.
C3_IdempotentEndOfPart ==
    [][rd.at_eof => /\ rd' = rd
                    /\ content' = content
                    /\ ops' = <<>>
                    /\ ret' = <<>>]_vars

\* a call made after end-of-part was set: it touched nothing
C3_Witness ==
    /\ rd.at_eof
    /\ last.op \in {"read_chunk", "readline"}
    /\ ops = <<>>
    /\ out # <<>>

\* the last call scanned for the boundary on a transport that was already at
\* its end, in a stream that holds no CRLF+boundary at all
TruncatedCall ==
    /\ rd.length = None
    /\ used = {"chunk"}
    /\ SubAt < 0
    /\ last.op \in ChunkCallers
    /\ ReadOps # {}
    /\ \A i \in ReadOps : ops[i].got = <<>>

\* C4: when the transport is at end of stream before any CRLF+boundary was
\* seen, the call raises, and end-of-part is not set.
C4_EofMidPartIsAnError ==
    TruncatedCall => err # "none" /\ ~rd.at_eof

\* the last call was a read_chunk that scanned, pushed the boundary back to
\* the transport and set end-of-part
ScanReachedEof ==
    /\ last.op \in ChunkCallers
    /\ ~HasLength(rd)
    /\ rd.at_eof
    /\ UnreadOps # {}

\* the stream offset right after the line that holds the first boundary
AfterBoundaryLine ==
    Len(orig) - Len(TrReadline(Slice(orig, SubAt + 2, Len(orig))).rest)

\* C5, as stated: the call that sets end-of-part consumes the boundary line,
\* so the transport goes on with the first byte after that line.
C5_BoundaryLineConsumed ==
    (ScanReachedEof /\ used = {"chunk"}) => Pos = AfterBoundaryLine

\* after the call that set end-of-part: one readline was made, last, and it
\* took the CRLF in front of the boundary; the boundary itself is what the
\* transport delivers next
C5_OnlyCrlfConsumed ==
    ScanReachedEof => /\ Cardinality(ReadlineOps) = 1
                      /\ ops[Len(ops)] = Op("readline", 0, CRLF)
                      /\ StartsWith(content, rd.boundary)

\* C5, amended: the read_chunk call that sets end-of-part while scanning
\* consumes exactly one line from the transport, the CRLF that precedes the
\* boundary; the boundary line stays on the transport and is what it
\* delivers next; no later call on the reader consumes anything.
C5_CrlfConsumedOnce ==
    /\ []C5_OnlyCrlfConsumed
    /\ [][rd.at_eof => content' = content]_vars

C5_Witness ==
    /\ ScanReachedEof
    /\ used = {"chunk"}
    /\ out # <<>>
    /\ Pos < AfterBoundaryLine

\* C6: with a declared content-length L > 0 every transport read asks for at
\* most min(size, L - bytes read so far), the bytes-read counter never
\* exceeds L, and end-of-part is set by read_chunk exactly when the counter
\* reaches L.
C6_LengthClamp ==
    HasLength(rd) =>
        /\ rd.read_bytes <= rd.length[1]
        /\ rd.read_bytes = rd.length[1] => rd.at_eof
        /\ (rd.at_eof /\ "line" \notin used) => rd.read_bytes = rd.length[1]
        /\ last.op \in ChunkCallers =>
               \A i \in ReadOps :
                   /\ ops[i].n <= last.size
                   /\ ops[i].n <= rd.length[1] - (rd.read_bytes - Len(ops[i].got))
                   /\ Len(ops[i].got) <= ops[i].n

\* a length-mode part read to its end in more than one call
C6_Witness ==
    /\ HasLength(rd)
    /\ rd.at_eof
    /\ last.op = "read_chunk"
    /\ rd.read_bytes = rd.length[1]
    /\ Len(out) > Len(ret)
    /\ ret # <<>>

\* the line with every trailing CR and LF removed
Trimmed(line) ==
    LET n == CHOOSE k \in 0..Len(line) :
                 /\ k = 0 \/ line[k] \notin {13, 10}
                 /\ \A i \in (k + 1)..Len(line) : line[i] \in {13, 10}
    IN SubSeq(line, 1, n)

\* C7: readline sets end-of-part and returns empty exactly when the line it
\* examines, trimmed of trailing CR/LF, is the boundary or the boundary
\* followed by `--`; a line that only starts with the boundary is returned
\* as data and end-of-part stays unset.
C7_ReadlineExactBoundary ==
    (last.op = "readline" /\ last.line # None) =>
        LET line == last.line[1]
            exact == Trimmed(line) \in {Boundary, Boundary \o DD}
        IN /\ (rd.at_eof /\ ret = <<>>) <=> exact
           /\ (StartsWith(line, Boundary) /\ ~exact) => (ret = line /\ ~rd.at_eof)

\* readline met the terminal marker without a trailing CRLF
C7_Witness ==
    /\ last.op = "readline"
    /\ last.line = Some(Boundary \o DD)
    /\ rd.at_eof
    /\ ret = <<>>

\* the reader scans for the boundary and was driven through read_chunk only
\* (by itself or by read / release), on a stream that holds a CRLF+boundary
Scanned ==
    /\ rd.length = None
    /\ used = {"chunk"}
    /\ SubAt >= 0

\* C26: while scanning, however the transport splits the stream into reads
\* (down to one byte a read, so that CRLF+boundary spans three reads or
\* more), the chunks read_chunk returns up to end-of-part are the bytes
\* before the first CRLF+boundary: never a byte of that sequence, and all
\* of them once end-of-part is set.
C26_EverySplit ==
    Scanned => /\ IsPrefix(out, Body)
               /\ rd.at_eof => out = Body

\* C27: with a Content-Length declared, 0 included, read_chunk takes the
\* length path and never scans: it asks the transport for no more than the
\* declared length and pushes nothing back; with a declared length of 0 the
\* part is empty, a read_chunk sets end-of-part, and no body byte is read
\* from the transport or returned.
C27_DeclaredLengthPath ==
    (rd.length # None /\ last.op \in ChunkCallers) =>
        /\ UnreadOps = {}
        /\ \A i \in ReadOps : ops[i].n <= rd.length[1]
        /\ rd.length = Some(0) =>
               /\ out = <<>>
               /\ \A i \in ReadOps : ops[i].got = <<>>
               /\ last.op = "read_chunk" => rd.at_eof

\* the last call was a readline that returned a data line after looking at
\* the line that follows it, which is now the last of the queue
LookedAhead ==
    /\ last.op = "readline"
    /\ last.line # None
    /\ ~StartsWith(last.line[1], Boundary)

\* a genuine boundary line: trimmed, the boundary or the boundary and `--`
Genuine(line) == Trimmed(line) \in {Boundary, Boundary \o DD}

\* the returned line is the line without its CRLF when the line after it is
\* a genuine boundary line, and the whole line otherwise
C28_CrlfStripped ==
    LookedAhead =>
        ret = IF Genuine(rd.unread[Len(rd.unread)]) THEN DropLast2(last.line[1]) ELSE last.line[1]

\* C28: readline removes the trailing CRLF of the data line it returns
\* exactly when the following line is a genuine boundary line; when that
\* line only starts with the boundary bytes the returned line keeps its
\* CRLF.  The lookahead line is not lost: the next readline call that
\* examines a line examines it.
C28_ReadlineLookahead ==
    /\ []C28_CrlfStripped
    /\ [][(last'.op = "readline" /\ last'.line # None /\ rd.unread # <<>>)
              => last'.line = Some(Head(rd.unread))]_vars

\* the transports read() can leave behind when it is called on reader r
\* with transport c and returns: its loop, for every length the transport's
\* reads can have (a turn that changes nothing is a loop that never ends)
RECURSIVE ReadEnds(_, _)
ReadEnds(r, c) ==
    IF r.at_eof THEN {c}
    ELSE UNION {UNION {LET res == read_chunk(r, c, chunk_size, k1, k2)
                       IN IF res.rd = r /\ res.content = c THEN {}
                          ELSE ReadEnds(res.rd, res.content) :
                       k2 \in SecondLens(r, c, chunk_size, k1)} :
                k1 \in FirstLens(r, c, chunk_size)}

\* C30: release drains the part.  When it returns end-of-part is set,
\* nothing was returned, and the transport is where a read() from the same
\* point can leave it: every turn of release, like every turn of read, keeps
\* the transport on the way to one of these places and ends in one.  On a
\* reader at end-of-part release returns at once and touches neither the
\* reader nor the transport.
C30_ReleaseDrains ==
    [][/\ (pc \in {"release", "read"} /\ pc' = pc) =>
              ReadEnds(rd', content') \subseteq ReadEnds(rd, content)
       /\ (pc \in {"release", "read"} /\ pc' = "idle") =>
              /\ rd'.at_eof
              /\ content' \in ReadEnds(rd, content)
       /\ (pc = "release" /\ pc' = "idle") => ret' = <<>>
       /\ (pc = "idle" /\ last'.op = "release") =>
              /\ rd' = rd /\ content' = content /\ ops' = <<>> /\ ret' = <<>>
              /\ rd.at_eof => pc' = "idle"]_vars

\* release returned on a part with a body: it returned none of it and left
\* the boundary line on the transport
C30_Witness ==
    /\ last.op = "release"
    /\ pc = "idle"
    /\ rd.at_eof
    /\ out # <<>>
    /\ Len(out) < Pos
    /\ StartsWith(content, Boundary)

\* the stream offset of the next line readline has to examine, on a reader
\* driven through readline only: the queued lookahead line lies just before
\* the transport's position
NextLineAt == Pos - Len(Flatten(rd.unread))

\* C40: the pending-line queue never holds more than one line, and readline
\* examines the lines in stream order: each line it examines is the line of
\* the stream that follows the ones examined before, and a queued lookahead
\* line is examined before any new line is read from the transport.
C40_OneLineQueue ==
    /\ [](Len(rd.unread) <= 1)
    /\ [][(last'.op = "readline" /\ last'.line # None /\ used \subseteq {"line"}) =>
              /\ last'.line[1] = TrReadline(Slice(orig, NextLineAt, Len(orig))).got
              /\ rd.unread # <<>> =>
                     /\ last'.line[1] = Head(rd.unread)
                     /\ Len(ops') <= 1
                     /\ ops' # <<>> => rd'.unread = <<ops'[1].got>>]_vars

\* readline examined the line it had queued and queued the line after it
C40_Witness ==
    /\ LookedAhead
    /\ used = {"line"}
    /\ Len(ops) = 1
    /\ last.line[1] # <<>>
    /\ rd.unread # <<>> /\ rd.unread[1] # <<>>

\* a turn of `while not self._at_eof` that leaves the reader and the
\* transport exactly as it found them, with end-of-part still unset: the
\* turn after it is the same turn
TurnInVain(r, c) ==
    \E k1 \in FirstLens(r, c, chunk_size) :
      \E k2 \in SecondLens(r, c, chunk_size, k1) :
        LET res == read_chunk(r, c, chunk_size, k1, k2)
        IN ~LoopLeft(res.rd) /\ res.rd = r /\ res.content = c

\* C38: read and release terminate for every finite transport stream, in
\* length mode and in boundary-scanning mode, also when the stream ends
\* before the boundary or before the declared length: inside their loop
\* every turn sets end-of-part or moves the reader or the transport on, so
\* no turn can repeat for ever on a transport that returns empty reads.
C38_ReadAndReleaseTerminate ==
    pc \in {"read", "release"} => ~TurnInVain(rd, content)

----------------------------------------------------------------------------
(* Claims about MultipartPayloadWriter, checked under SpecPayloadWriter. *)

\* everything passed to the sink, concatenated
Forwarded == Flatten(blocks)

\* C8: with base64 enabled and no compressor, whatever the split of the body
\* into write calls, what reached the sink after write_eof is the base64
\* encoding of the whole body.
C8_Base64ChunkInvariance ==
    (phase = "done" /\ pw.encoding = Some("base64") /\ compress = None)
        => Forwarded = b64encode(body)

\* a body of more than one group, written in several calls, the last group
\* padded
C8_Witness ==
    /\ phase = "done"
    /\ pw.encoding = Some("base64")
    /\ compress = None
    /\ Len(body) = 4
    /\ Len(blocks) = 2
    /\ Forwarded[Len(Forwarded)] = 61

\* the bytes the write calls so far passed on to the transfer encoder: the
\* part of the body written so far, or with a compressor what it returned
\* for it, the compressed form of all but the bytes it still holds
EncoderInput ==
    LET written == SubSeq(body, 1, Len(body) - Len(todo))
    IN IF pw.compressor = None THEN written
       ELSE Deflated(SubSeq(written, 1, Len(written) - Len(pw.compressor[1].held)))

\* C33: with base64 enabled, after every completed write call the
\* accumulator holds fewer than 3 bytes, as many as the bytes received so
\* far modulo 3 and the last ones received; every block write forwarded is
\* the encoding of whole groups of 3 bytes, so what was forwarded is the
\* encoding of the rest of the bytes received and holds no padding `=`.
C33_Base64Accumulator ==
    (pw.encoding = Some("base64") /\ phase \in {"encoding", "writing"}) =>
        LET buffer == pw.encoding_buffer[1]
            whole == Len(EncoderInput) - (Len(EncoderInput) % 3)
        IN /\ Len(buffer) < 3
           /\ Len(buffer) = Len(EncoderInput) % 3
           /\ buffer = SubSeq(EncoderInput, whole + 1, Len(EncoderInput))
           /\ Forwarded = b64encode(SubSeq(EncoderInput, 1, whole))
           /\ \A i \in 1..Len(blocks) :
                  /\ Len(blocks[i]) % 4 = 0
                  /\ \A j \in 1..Len(blocks[i]) : blocks[i][j] # 61

\* two bytes were held back by a write, and a later write forwarded them in
\* a group with its first byte and held its last byte back
C33_Witness ==
    /\ pw.encoding = Some("base64")
    /\ phase = "writing"
    /\ compress = None
    /\ todo = <<>>
    /\ Len(body) = 4
    /\ Len(blocks) = 1
    /\ Len(pw.encoding_buffer[1]) = 1

\* the transfer encoding of data as a whole
TransferEncoded(given) ==
    IF pw.encoding = Some("base64") THEN b64encode(given) ELSE b2a_qp(given)

\* everything the compressor gives for the body: the compressed body and
\* the end of the compressed stream, which flush returns
CompressedBody == Deflated(body) \o <<3, 0>>

\* a compressor and a transfer encoder are both enabled
BothEnabled == compress # None /\ pw.encoding # None

\* the chunk passed to the write call of this step
WrittenNow == SubSeq(todo, 1, Len(todo) - Len(todo'))

\* C32, as stated: with a compressor and a transfer encoder both enabled,
\* for every split of the body into write calls followed by one write_eof,
\* the bytes forwarded to the sink are the transfer encoding of everything
\* the compressor gave, its flush tail included, and a write for which the
\* compressor returns nothing forwards nothing.
C32_EncodingOfCompressed ==
    /\ []((phase = "done" /\ BothEnabled) => Forwarded = TransferEncoded(CompressedBody))
    /\ [][(BothEnabled /\ phase' = "writing" /\ WrittenNow # <<>>
              /\ pw'.compressor[1].held # <<>>) => blocks' = blocks]_vars

\* C32, amended: with base64 the bytes forwarded are the base64 encoding of
\* everything the compressor gave, the flush tail included and ahead of the
\* padded remainder.  With quoted-printable each output of the compressor
\* and the flush tail are encoded on their own and forwarded as one block
\* each; the blocks decode to everything the compressor gave, but they are
\* not the encoding of it as a whole.  Each chunk is compressed once, the
\* flush tail is not compressed again, and a write for which the compressor
\* returns nothing forwards nothing.
C32_EncodedPerOutput ==
    /\ []((phase = "done" /\ BothEnabled) =>
              /\ pw.encoding = Some("base64") => Forwarded = b64encode(CompressedBody)
              /\ pw.encoding = Some("quoted-printable") => a2b_qp(Forwarded) = CompressedBody)
    /\ [][(BothEnabled /\ phase' = "writing" /\ WrittenNow # <<>>) =>
              LET held == pw.compressor[1].held
              IN IF pw'.compressor[1].held # <<>>
                 THEN /\ blocks' = blocks
                      /\ pw'.compressor[1].held = held \o WrittenNow
                 ELSE pw.encoding = Some("quoted-printable") =>
                          blocks' = Append(blocks, b2a_qp(Deflated(held \o WrittenNow)))]_vars
    /\ [][(BothEnabled /\ phase' = "done" /\ pw.encoding = Some("quoted-printable")) =>
              blocks' = Append(blocks, b2a_qp(Deflated(pw.compressor[1].held) \o <<3, 0>>))]_vars

\* quoted-printable over a compressor: an output of the compressor that
\* ends with a space was encoded on its own, and more followed it
C32_Witness ==
    /\ phase = "done"
    /\ BothEnabled
    /\ pw.encoding = Some("quoted-printable")
    /\ Len(blocks) >= 2
    /\ Forwarded # b2a_qp(CompressedBody)
    /\ a2b_qp(Forwarded) = CompressedBody

----------------------------------------------------------------------------
(* Claims about parse_content_disposition, checked under                   *)
(* SpecContentDisposition.                                                 *)

\* the name a parameter's key stands for
NameOf(it) == strip(lower(it.key))

\* a plain `key=token` or `key="quoted string"` parameter
PlainItem(it) ==
    /\ is_token(NameOf(it))
    /\ count(it.key, "*") = 0
    /\ it.kind = "quoted" \/ (it.kind = "token" /\ is_token(it.text))

DistinctNames ==
    \A i, j \in 1..Len(disp.items) : NameOf(disp.items[i]) = NameOf(disp.items[j]) => i = j

WellFormed ==
    /\ is_token(disp.dtype)
    /\ \A i \in 1..Len(disp.items) : PlainItem(disp.items[i])
    /\ DistinctNames

\* C9: a header whose disposition type is a token and whose parameters are
\* plain key=token or key="quoted string" with distinct keys parses to the
\* lower-cased type and every parameter with its unquoted value.
C9_AcceptsWellFormed ==
    (parsed # None /\ WellFormed)
        => parsed[1] = [err |-> "none",
                        disptype |-> Some(lower(disp.dtype)),
                        params |-> [i \in 1..Len(disp.items) |->
                                       <<NameOf(disp.items[i]), disp.items[i].text>>]]

\* a parameter the parser takes up when it comes to it: a token key with a
\* token or a quoted string
AcceptedItem(it) ==
    /\ is_token(NameOf(it))
    /\ it.kind = "quoted" \/ (it.kind = "token" /\ is_token(it.text))

\* the parameter before this one leaves a quoted string open, which this
\* one is then a piece of
InsideQuotes(i) ==
    /\ i > 1
    /\ disp.items[i - 1].kind = "raw"
    /\ disp.items[i - 1].text # <<>>
    /\ Head(disp.items[i - 1].text) = "\""

DuplicateName ==
    \E i, j \in 1..Len(disp.items) :
        /\ i < j
        /\ AcceptedItem(disp.items[i]) /\ ~InsideQuotes(i)
        /\ AcceptedItem(disp.items[j]) /\ ~InsideQuotes(j)
        /\ NameOf(disp.items[i]) = NameOf(disp.items[j])

\* C10: a header in which a parameter name appears twice, compared after
\* lower-casing and trimming, parses to no disposition type and no
\* parameters, whatever its other parameters are.
C10_DuplicateRejected ==
    (parsed # None /\ DuplicateName) => parsed[1] = Rejected

\* a parameter whose key is not a token
InvalidKey(it) == it.kind # "bare" /\ ~is_token(NameOf(it))

\* an extended parameter whose value is no RFC 5987 triplet, or whose
\* percent-encoded bytes are not utf-8
InvalidExtended(it) ==
    /\ is_token(NameOf(it))
    /\ is_extended_param(NameOf(it))
    /\ ~is_continuous_param(NameOf(it))
    /\ \/ ~is_rfc5987(it.text)
       \/ \E i \in 1..Len(it.text) :
            /\ it.text[i] = "%"
            /\ i + 2 <= Len(it.text)
            /\ HexValue(it.text[i + 1]) >= 8

\* a parameter the parser has to refuse and that is not a piece of a quoted
\* string
Offending(i) ==
    /\ ~InsideQuotes(i)
    /\ InvalidKey(disp.items[i]) \/ InvalidExtended(disp.items[i])

\* C11: all or nothing: a header with a parameter whose key is not a token,
\* or whose extended value is not a valid triplet or fails percent-decoding,
\* parses to no disposition type and no parameters; the parameter is never
\* left out of an otherwise accepted header.
C11_AllOrNothing ==
    (parsed # None /\ \E i \in 1..Len(disp.items) : Offending(i))
        => (parsed[1].disptype = None /\ parsed[1].params = <<>>)

\* C12: parse_content_disposition raises for no header, also not for one
\* with an empty parameter value or a parameter without `=`.
C12_ParseNeverRaises == parsed # None => parsed[1].err = "none"

----------------------------------------------------------------------------
(* Claims about content_disposition_filename, checked under SpecFilename. *)

\* the indexes of the continuation segments fparams holds
SegmentIndexes ==
    {i \in 0..(MaxIndex + 1) :
        HasKey(fparams, SegmentKey(i, TRUE)) \/ HasKey(fparams, SegmentKey(i, FALSE))}

\* the value of segment i
SegmentValue(i) ==
    IF HasKey(fparams, SegmentKey(i, TRUE)) THEN Lookup(fparams, SegmentKey(i, TRUE))
    ELSE Lookup(fparams, SegmentKey(i, FALSE))

\* the first index fparams has no segment of
FirstGap ==
    CHOOSE k \in 0..(MaxIndex + 2) : k \notin SegmentIndexes /\ \A j \in 0..(k - 1) : j \in SegmentIndexes

\* the values of segments 0 .. k - 1, concatenated
RECURSIVE Assembled(_)
Assembled(k) == IF k = 0 THEN <<>> ELSE Assembled(k - 1) \o SegmentValue(k - 1)

\* C13: when params holds neither `filename*` nor `filename`, the filename
\* is the concatenation of the values of filename*0, filename*1, ... in
\* increasing numeric order up to the first missing index, for any number
\* of segments, and none when there is no segment 0 (values that carry no
\* charset marker, so that nothing is decoded).
C13_ContinuationAssembly ==
    (/\ fresult # None
     /\ fname = Filename
     /\ ~HasKey(fparams, Filename)
     /\ ~HasKey(fparams, Filename \o <<"*">>)
     /\ count(Assembled(FirstGap), "'") = 0)
        => fresult[1] = [err |-> "none",
                         value |-> IF FirstGap = 0 THEN None ELSE Some(Assembled(FirstGap))]

\* C39: the name of a part is derived from the `name` parameters only: when
\* params holds neither `name*` nor `name`, content_disposition_filename
\* (params, 'name'), which is what BodyPartReader.name returns, is none and
\* raises nothing, whatever filename, filename* or filename*0..N parameters
\* params holds.
C39_NameFromNameOnly ==
    (/\ fresult # None
     /\ fname = Name
     /\ ~HasKey(fparams, Name)
     /\ ~HasKey(fparams, Name \o <<"*">>))
        => fresult[1] = [err |-> "none", value |-> None]

----------------------------------------------------------------------------
(* Claims about the boundary of a MultipartWriter, checked under           *)
(* SpecBoundary.                                                           *)

\* every byte of b is a token character
AllTokenChars(b) == \A i \in 1..Len(b) : b[i] \in TChar

\* b has a control byte other than TAB: 0x00-0x08, 0x0A-0x1F, 0x7F
HasControlByte(b) == \E i \in 1..Len(b) : b[i] \in ((0..31) \ {9}) \cup {127}

\* b with a backslash before every backslash and double quote
RECURSIVE Escaped(_)
Escaped(b) ==
    IF b = <<>> THEN <<>>
    ELSE (IF Head(b) \in {92, 34} THEN <<92, Head(b)>> ELSE <<Head(b)>>) \o Escaped(Tail(b))

\* the writer was made and its boundary_value is v
Rendered(v) == made[1].err = "none" /\ made[1].boundary_value = v

\* the three cases for boundary b, the first one for the b that raw holds of
Rendering(b, raw) ==
    IF raw THEN Rendered(b)
    ELSE IF HasControlByte(b) THEN made[1].err # "none"
    ELSE Rendered(<<34>> \o Escaped(b) \o <<34>>)

\* a writer was constructed with an ASCII boundary
AsciiBoundaryGiven == made # None /\ boundary_arg # None /\ IsAscii(boundary_arg[1])

\* C14 as stated: for every ASCII boundary, boundary_value is the raw
\* boundary when every byte is a token character; otherwise construction
\* fails when the boundary has a control byte other than TAB; otherwise it
\* is the boundary in double quotes with every backslash and double quote
\* escaped.
C14_BoundaryRendering ==
    AsciiBoundaryGiven => Rendering(boundary_arg[1], AllTokenChars(boundary_arg[1]))

\* C14 amended: the raw boundary is rendered when the boundary is not empty
\* and every byte is a token character; the empty boundary is rendered as
\* the empty quoted string.
C14_NonEmptyTokenIsRaw ==
    AsciiBoundaryGiven
        => Rendering(boundary_arg[1], boundary_arg[1] # <<>> /\ AllTokenChars(boundary_arg[1]))

\* a boundary with a TAB and a double quote was rendered, quoted
C14_Witness ==
    /\ AsciiBoundaryGiven
    /\ \E i, j \in 1..Len(boundary_arg[1]) : boundary_arg[1][i] = 9 /\ boundary_arg[1][j] = 34
    /\ made[1].err = "none"
    /\ Len(made[1].boundary_value) = Len(boundary_arg[1]) + 3

----------------------------------------------------------------------------
(* Claims about BodyPartReader.decode, checked under SpecDecode. *)

\* the header name is there with a value that, lowered, is not one of known
Outside(name, known) ==
    Has(dpart.headers, name) /\ lowerOf(Get(dpart.headers, name)) \notin known

\* C21: decode fails, and does not return the bytes it was given, when the
\* Content-Transfer-Encoding of the part is not base64, quoted-printable,
\* binary, 7bit or 8bit, or its Content-Encoding is not gzip, deflate or
\* identity, whatever the case of the letters.
C21_UnknownEncodingFails ==
    (/\ dresult # None
     /\ \/ Outside("Content-Transfer-Encoding", {"base64", "quoted-printable", "binary", "7bit", "8bit"})
        \/ Outside("Content-Encoding", {"gzip", "deflate", "identity"}))
        => dresult[1].err # "none"

\* a base64 part with the content encoding br was given to decode, which
\* raised after the base64 step
C21_Witness ==
    /\ dresult # None
    /\ dresult[1].op = "decode"
    /\ dresult[1].err = "RuntimeError"
    /\ dpart.te = "base64"
    /\ Has(dpart.headers, "Content-Transfer-Encoding")
    /\ Get(dpart.headers, "Content-Transfer-Encoding") = "BASE64"
    /\ Has(dpart.headers, "Content-Encoding")
    /\ Get(dpart.headers, "Content-Encoding") = "br"

\* the header name says what the sender did: it names one of the values
\* active when the sender encoded, and is absent or names one of the
\* values idle when the sender did not
Says(name, encoded, active, idle) ==
    IF encoded THEN Has(dpart.headers, name) /\ lowerOf(Get(dpart.headers, name)) \in active
    ELSE ~Outside(name, idle)

\* the headers say how the sender encoded the body
HeadersMatch ==
    /\ Says("Content-Transfer-Encoding", dpart.te # "none", {dpart.te}, {"binary", "7bit", "8bit"})
    /\ Says("Content-Encoding", dpart.ce # "none", {"gzip", "deflate"}, {"identity"})

\* the headers name no encoding that changes bytes
HeadersIdle ==
    /\ ~Outside("Content-Transfer-Encoding", {"binary", "7bit", "8bit"})
    /\ ~Outside("Content-Encoding", {"identity"})

\* C29: decode undoes the transfer encoding first and the content encoding
\* second: a body the sender compressed and then transfer-encoded comes
\* back when the headers say so; with no header, or with binary, 7bit,
\* 8bit and identity only, the bytes come back as they were given; and
\* read(decode = True) decodes the whole body once, whatever chunks it was
\* read in.
C29_DecodeOrder ==
    dresult # None
        => /\ HeadersMatch => dresult[1].err = "none" /\ dresult[1].data = dpart.body
           /\ HeadersIdle => dresult[1].err = "none" /\ dresult[1].data = extend(<<>>, dchunks)

\* read(decode = True) gave back a body that came compressed and in
\* base64, in two chunks
C29_Witness ==
    /\ dresult # None
    /\ dresult[1].op = "read"
    /\ dpart.te = "base64"
    /\ dpart.ce = "deflate"
    /\ HeadersMatch
    /\ Len(dpart.body) = 2
    /\ Len(dchunks[1]) % 4 = 1
    /\ dchunks[2] # <<>>
    /\ dresult[1].data = dpart.body

----------------------------------------------------------------------------
(* Claims about MultipartWriter, checked under SpecWriter. *)

\* every payload was handed to the writer with one call
OneCallEach ==
    \A i, j \in 1..Len(wanted) :
        (wanted[i].payload # 0 /\ wanted[i].payload = wanted[j].payload) => i = j

\* no headers came with a payload, so that none names an encoding
NoHeadersGiven ==
    /\ \A i \in 1..Len(wanted) : wanted[i].headers \in {None, Some(<<>>)}
    /\ \A i \in 1..Len(payloads) : payloads[i].headrs = None

\* C1: byte payloads with no content or transfer encoding, appended to a
\* writer, written and read back part by part with a BodyPartReader, come
\* back in order with their bytes and the Content-Type of the part.
C1_RoundTrip ==
    (wpc = "read" /\ close_boundary /\ OneCallEach /\ NoHeadersGiven)
        => read_parts = [i \in 1..Len(wanted) |->
                     [content_type |-> Some(utf8("application/octet-stream")),
                      data |-> wanted[i].value]]

\* write(sink, close_boundary) was called and returned
Written == wpc \notin {"build", "off"} /\ werr = "none"

\* `--boundary` CRLF and `--boundary--` CRLF
Opening == DD \o WriterBoundary \o CRLF

Closing == DD \o WriterBoundary \o DD \o CRLF

\* every part has a known size and no active encoding
SizeKnown ==
    \A i \in 1..Len(writer_parts) :
        /\ writer_parts[i].size # None
        /\ writer_parts[i].encoding = None
        /\ writer_parts[i].te_encoding = None

\* per part 2 + boundary length + 2 + header block length + body length + 2
RECURSIVE PartsBytes(_)
PartsBytes(ps) ==
    IF ps = <<>> THEN 0
    ELSE 2 + Len(WriterBoundary) + 2 + Len(Head(ps).headers) + Len(Head(ps).value) + 2
             + PartsBytes(Tail(ps))

\* C15: when the size of the writer is known, it is the number of bytes
\* write(sink, close_boundary = true) passes to the sink: per part
\* 2 + boundary length + 2 + header block length + body length + 2, plus
\* 2 + boundary length + 4 for the closing marker, for every number of
\* parts, zero included.
C15_SizeIsBytesWritten ==
    (Written /\ close_boundary /\ SizeKnown)
        => /\ writer_size(writer_parts, WriterBoundary) = Some(Len(Flatten(sink)))
           /\ Len(Flatten(sink)) = PartsBytes(writer_parts) + 2 + Len(WriterBoundary) + 4

\* the blocks bl are the parts ps one after the other, each as `--boundary`
\* CRLF, its header block, its body (of a part with an encoding: whatever
\* blocks), CRLF; then the closing marker if there is one
RECURSIVE Frames(_, _)
Frames(bl, ps) ==
    IF ps = <<>> THEN bl \in {<<>>, <<Closing>>}
    ELSE /\ Len(bl) >= 3
         /\ bl[1] = Opening
         /\ bl[2] = Head(ps).headers
         /\ \E k \in 3..Len(bl) :
              /\ bl[k] = CRLF
              /\ \/ Head(ps).encoding # None
                 \/ Head(ps).te_encoding # None
                 \/ SubSeq(bl, 3, k - 1) = <<Head(ps).value>>
              /\ Frames(SubSeq(bl, k + 1, Len(bl)), Tail(ps))

\* C16: write emits the parts in append order, each as `--boundary` CRLF,
\* the header block rendered when it was appended, the body, CRLF; nothing
\* of a later part comes before the CRLF that ends an earlier one.
C16_PartsInAppendOrder == Written => Frames(sink, writer_parts)

\* two parts that differ were written
C16_Witness ==
    /\ Written
    /\ Len(writer_parts) = 2
    /\ writer_parts[1].headers # writer_parts[2].headers
    /\ writer_parts[1].encoding = None
    /\ writer_parts[1].te_encoding = None

\* a part has an active content-encoding or transfer-encoding
Encoded_(part) == part.encoding # None \/ part.te_encoding # None

\* what the claim has write do for the parts, step by step
RECURSIVE PartSteps(_)
PartSteps(ps) ==
    IF ps = <<>> THEN <<>>
    ELSE <<"boundary", "headers">>
            \o (IF Encoded_(Head(ps))
                THEN <<"MultipartPayloadWriter", "enable", "part.write(w)", "w.write_eof">>
                ELSE <<"part.write(writer)">>)
            \o <<"crlf">> \o PartSteps(Tail(ps))

\* C31: write passes every part that has an active content-encoding or
\* transfer-encoding through a MultipartPayloadWriter of its own, made new
\* for the part, and calls write_eof on it once, after the payload's write
\* and before the CRLF that ends the part; a part with no active encoding
\* is written to the sink itself, with no MultipartPayloadWriter and no
\* write_eof.  When enabling the compression raises, write ends there.
C31_WriteEofOncePerPart ==
    wpc = "written" =>
        \A brotli \in BOOLEAN, emit \in BOOLEAN :
            LET res == write(writer_parts, WriterBoundary, close_boundary, brotli, emit)
                did == [i \in 1..Len(res.steps) |-> res.steps[i].op]
                all == PartSteps(writer_parts)
                         \o (IF close_boundary /\ writer_parts # <<>> THEN <<"close">> ELSE <<>>)
            IN (res.err = werr /\ res.blocks = sink) =>
                  /\ BlocksOf(res.steps) = sink
                  /\ IF werr = "none" THEN did = all
                     ELSE IsPrefix(did, all) /\ did[Len(did)] = "MultipartPayloadWriter"
                  /\ \A i \in 1..Len(did) :
                         /\ did[i] = "MultipartPayloadWriter" => res.steps[i].w = Some(NewPayloadWriter)
                         /\ did[i] = "part.write(writer)" =>
                                res.steps[i].w = None /\ Len(res.steps[i].out) = 1
                         /\ did[i] = "w.write_eof" =>
                                res.steps[i].out = payload_write_eof(res.steps[i - 1].w[1]).out

\* write returned for a part with base64 and a part with no encoding: the
\* write_eof of the first passed the padded remainder to the sink before
\* the CRLF of the part
C31_Witness ==
    /\ Written
    /\ Len(writer_parts) = 2
    /\ writer_parts[1].te_encoding = Some("base64")
    /\ ~Encoded_(writer_parts[2])
    /\ writer_parts[1].value # <<>>
    /\ Len(sink) >= 8
    /\ sink[4] = CRLF

\* C17: write(sink, close_boundary = true) ends with the closing marker
\* `--boundary--` CRLF, for a writer with no parts too, and
\* write(sink, close_boundary = false) never writes the closing marker.
C17_ClosingMarker ==
    Written => IF close_boundary
               THEN sink # <<>> /\ sink[Len(sink)] = Closing
               ELSE \A i \in 1..Len(sink) : sink[i] # Closing

\* the Content-Length of the rendered header block of a part, None if the
\* block has none
ContentLengthOf(part) == HeaderValue(HeaderLines(part.headers).lines, utf8("Content-Length"))

\* C18: the rendered header block of a part has a Content-Length header
\* exactly when the size of the payload is known and neither a content
\* encoding nor a transfer encoding is active, and its value is the size;
\* a part with an active encoding never has one.
C18_ContentLength ==
    \A i \in 1..Len(writer_parts) :
        LET part == writer_parts[i]
        IN /\ ContentLengthOf(part) # None
                <=> (part.size # None /\ part.encoding = None /\ part.te_encoding = None)
           /\ ContentLengthOf(part) # None => int(ContentLengthOf(part)[1]) = part.size[1]

\* the value of header name in h, lowered, None if h has no such header
Lowered(h, name) == IF Has(h, name) THEN Some(lowerOf(Get(h, name))) ELSE None

\* what the claim has append_payload do with payload i, whose headers are h
EncodingsTaken(i) ==
    LET h == payloads[i].headers[1]
        ce == Lowered(h, "Content-Encoding")
        te == Lowered(h, "Content-Transfer-Encoding")
        added == writer_parts'[Len(writer_parts')]
    IN IF /\ ce \in {None, Some("gzip"), Some("deflate"), Some("br"), Some("identity"), Some("")}
          /\ te \in {None, Some("base64"), Some("quoted-printable"), Some("binary"), Some("")}
       THEN /\ werr' = "none"
            /\ Len(writer_parts') = Len(writer_parts) + 1
            /\ SubSeq(writer_parts', 1, Len(writer_parts)) = writer_parts
            /\ added.encoding # None <=> ce \in {Some("gzip"), Some("deflate"), Some("br")}
            /\ added.te_encoding # None <=> te \in {Some("base64"), Some("quoted-printable")}
       ELSE /\ werr' # "none"
            /\ writer_parts' = writer_parts

\* C19: append_payload of a payload with headers takes a Content-Encoding
\* of gzip, deflate, br (active) or identity, empty (none) and a
\* Content-Transfer-Encoding of base64, quoted-printable (active) or binary,
\* empty (none), whatever the case of the letters, and adds the part; with
\* another value it fails and the parts of the writer stay as they are.
C19_EncodingsTaken ==
    [][(AppendEncoded /\ \A i \in 1..Len(payloads) : payloads[i].headers # None)
           => \E i \in 1..Len(payloads) : EncodingsTaken(i)]_vars

\* a part with GZIP was taken as gzip, then a part with 7bit was refused
\* and the part stayed
C19_Witness ==
    /\ werr = "RuntimeError"
    /\ Len(writer_parts) = 1
    /\ writer_parts[1].encoding = Some("gzip")
    /\ Len(payloads) = 1
    /\ payloads[1].headers # None
    /\ Lowered(payloads[1].headers[1], "Content-Transfer-Encoding") = Some("7bit")
    /\ Get(payloads[1].headers[1], "Content-Encoding") = "GZIP"

\* C20: append(obj, headers) adds one part at the end of the parts of the
\* writer, for raw bytes and for a payload object, with headers and
\* without; the parts that were there stay where and as they were.
C20_AppendAddsOnePart ==
    [][(AppendBytes \/ AppendObject)
           => /\ Len(writer_parts') = Len(writer_parts) + 1
              /\ SubSeq(writer_parts', 1, Len(writer_parts)) = writer_parts]_vars


----------------------------------------------------------------------------
(* Claims about the payload classes, checked under SpecPayload. *)

\* C22: the write of every stream-backed payload (IOBasePayload,
\* TextIOPayload, BytesIOPayload, BufferedReaderPayload, AsyncIOPayload)
\* closes the underlying stream exactly once on every exit path: after the
\* last chunk, when a read of the stream raises, and when a write of the
\* sink raises; before the write the stream is open.
C22_ClosedExactlyOnce ==
    pay # None /\ pay[1].kind \in StreamBacked =>
        stream.closes = IF wrote = None THEN 0 ELSE 1

\* a write of the sink raised after a chunk had been accepted, and the
\* stream was closed
C22_Witness ==
    /\ pay # None /\ pay[1].kind \in StreamBacked
    /\ wrote # None /\ wrote[1].err = "write"
    /\ taken # <<>>
    /\ stream.left # <<>>
    /\ stream.closes = 1

\* C23: every payload variant writes in bounded chunks: no call of the
\* sink's write carries more than BIG_CHUNK_LIMIT bytes, also when an
\* in-memory bytes or text payload is larger than that.
C23_BoundedChunks ==
    \A i \in 1..Len(taken) : Len(taken[i]) <= BIG_CHUNK_LIMIT

\* the content type the order of the claim gives: the argument, else the
\* Content-Type of the supplied headers, else the type guessed from the
\* file name, else the default of the variant
Resolved(created) ==
    LET kw == created.kw
        payload == created.obj[1]
    IN IF kw.content_type # None THEN kw.content_type[1]
       ELSE IF kw.headers # None /\ Has(kw.headers[1], "Content-Type")
            THEN Get(kw.headers[1], "Content-Type")
       ELSE IF payload.filename # None /\ guess_type(payload.filename[1]) # None
            THEN guess_type(payload.filename[1])[1]
       ELSE IF created.kind \in {"StringPayload", "StringIOPayload", "TextIOPayload"}
            THEN IF payload.encoding = Some("latin-1") THEN "text/plain; charset=latin-1"
                 ELSE "text/plain; charset=utf-8"
       ELSE "application/octet-stream"

\* C24: the content type of a payload is the explicit one (the argument,
\* else the Content-Type of the supplied headers), else the one guessed from
\* the file name, else the default (application/octet-stream, or text/plain
\* with the charset for text); a bytes payload made with a file name and
\* no explicit content type gets the guessed type.
C24_ResolutionOrder ==
    pay # None /\ pay[1].err = "none" => content_type(pay[1].obj[1]) = Resolved(pay[1])


----------------------------------------------------------------------------
(* Claims about ComponentInteractionIterator, checked under SpecIterator. *)

\* C25: an iterator created with count = n > 0 delivers at most n events to
\* its consumer, under every interleaving of __call__, awaits, timeout and
\* cancel, the events called after the iterator finished included; once n
\* events were delivered the consumer's loop can only end with None.
C25_AtMostCountEvents ==
    iargs.count > 0 =>
        /\ Len(consumer.got) <= iargs.count
        /\ Len(consumer.got) = iargs.count /\ consumer.pc = "done" => consumer.ended = "None"

\* the events whose __call__ came while the iterator was not finished and
\* whose check accepted them, in arrival order
Accepted ==
    LET accepted == SelectSeq(called, LAMBDA c : ~c.finished /\ c.checked \in {"none", "True", "value"})
    IN [i \in 1..Len(accepted) |-> accepted[i].event]

\* the events the consumer was given, in the order it got them, but those
\* called on a finished iterator
Delivered ==
    LET given == SelectSeq(consumer.got, LAMBDA g : ~called[g.event].finished)
    IN [i \in 1..Len(given) |-> given[i].event]

\* C36: the iterator loses and reorders no event.  The events delivered to
\* the consumer are, in this order and each once, the first of the events
\* that were accepted while the iterator was not finished, however many of
\* them arrive between two resumptions of the consumer; and when the
\* consumer gets the end signal every one of them has been delivered.
C36_NoEventLost ==
    /\ IsPrefix(Delivered, Accepted)
    /\ consumer.pc = "done" => Delivered = Accepted

----------------------------------------------------------------------------
(* Claims about Timeouter and ComponentInteractionWaiter, checked under    *)
(* SpecWaiter.                                                             *)

\* the timeouter can still expire: it was neither cancelled nor timed out
Unexpired == timeouter._handle # None

\* C34: set_timeout(value) with value > 0 on a timeouter that has not
\* expired makes it expire value time units from the call, whatever calls
\* of set_timeout came before: right after the call get_expiration_delay()
\* is value, the owner is cancelled with TimeoutError at that time, and no
\* later time is reached with the timeouter still to expire.
C34_ExpiresAfterValue ==
    /\ [][seen'.last = "set_timeout" =>
              get_expiration_delay(Now') = seen'.due[1] - evloop.now]_vars
    /\ []((seen.sets > 0 /\ seen.timed_out # <<>>) => seen.timed_out[1] = seen.due[1])
    /\ []((seen.sets > 0 /\ Unexpired) => evloop.now <= seen.due[1])

\* C35: a timeouter cancels its owner with TimeoutError at most once, and
\* never after Timeouter.cancel() was called, by the owner or by anyone; in
\* every state its handle is None exactly when its owner is None; and
\* set_timeout on a timeouter that expired or was cancelled changes
\* nothing.
C35_OnceAndNeverAfterCancel ==
    /\ [](Len(seen.timed_out) <= 1)
    /\ []((timeouter._handle = None) <=> (timeouter._owner = None))
    /\ [][(seen.cancelled \/ seen.timeouter_cancels > 0) => seen'.timed_out = seen.timed_out]_vars
    /\ [][seen'.last = "set_timeout, expired" =>
              /\ timeouter' = timeouter /\ evloop' = evloop /\ waiter' = waiter
              /\ seen'.timed_out = seen.timed_out]_vars

\* the timeouter expired and cancelled its owner; a set_timeout came after
C35_Witness ==
    /\ Len(seen.timed_out) = 1
    /\ seen.last = "set_timeout, expired"
    /\ waiter._future = [state |-> "exception", value |-> Some("TimeoutError")]
    /\ ~seen.cancelled

\* the outcomes a step can complete the future with
Outcome(how) ==
    IF how = "cancel" THEN {[state |-> "result", value |-> Some(None)]}
    ELSE IF how \in {"_step", "set_timeout, at once"}
    THEN {[state |-> "exception", value |-> Some("TimeoutError")]}
    ELSE IF how = "call raise" THEN {[state |-> "exception", value |-> Some("CheckError")]}
    ELSE IF how \in {"call True", "call none"}
    THEN {[state |-> "result", value |-> Some(Some(e))] : e \in {"e1", "e2"}}
    ELSE IF how = "call value"
    THEN {[state |-> "result", value |-> Some(Some(<<e, "value">>))] : e \in {"e1", "e2"}}
    ELSE {}

\* C37: under every interleaving of event delivery, timeout expiry and
\* cancel, a waiter completes its future exactly once, with the outcome of
\* the step that came first, is removed from the slasher exactly once, at
\* that step, and cancels its timeouter at most once; an event its check
\* rejects with False changes nothing.
C37_CompletesOnce ==
    /\ []((waiter._future.state # "pending") <=> waiter._finished)
    /\ [](seen.removed = IF waiter._finished THEN 1 ELSE 0)
    /\ [](seen.timeouter_cancels <= 1)
    /\ [][waiter._future.state # "pending" =>
              /\ waiter'._future = waiter._future
              /\ seen'.removed = seen.removed
              /\ seen'.timeouter_cancels = seen.timeouter_cancels]_vars
    /\ [][(waiter._future.state = "pending" /\ waiter'._future.state # "pending") =>
              waiter'._future \in Outcome(seen'.last)]_vars
    /\ [][seen'.last = "call False" =>
              /\ timeouter' = timeouter /\ evloop' = evloop /\ waiter' = waiter
              /\ seen'.removed = seen.removed
              /\ seen'.timeouter_cancels = seen.timeouter_cancels]_vars

\* the timeout came first; an event the check accepts came after it
C37_Witness ==
    /\ Len(seen.timed_out) = 1
    /\ seen.last = "call True"
    /\ waiter._future = [state |-> "exception", value |-> Some("TimeoutError")]
    /\ seen.removed = 1
    /\ seen.timeouter_cancels = 1

====
